---- MODULE Spec2Model ----
(***************************************************************************)
(* EasyHg: the interactive session state machine (src/src/app.rs) driven   *)
(* by key events, the periodic timer and background-task completions.      *)
(*                                                                         *)
(* The App struct is modelled field by field.  Every method of App is an   *)
(* operator from a session record to a session record, so that a handler   *)
(* which calls several methods in sequence is the composition of their     *)
(* operators in the same order.  An action applies one whole handler to    *)
(* the current session and stores every field of the result.               *)
(*                                                                         *)
(* tokio::spawn'ed background units are the entries of `tasks`; a unit     *)
(* completes at any time and in any order, and its completion is handled   *)
(* by handle_app_event.  Strings typed by the user or printed by hg are    *)
(* represented by short tags; Option<T> is <<>> (None) or <<x>> (Some x).  *)
(***************************************************************************)
EXTENDS Integers, Sequences, FiniteSets, TLC

\* ------------------------------------------------------------------ bounds

\* Background units in flight at once.
MaxTasks == 2
\* Detail requests issued in one run (a u64 counter in the source).
MaxDetailRequests == 5
\* Width, in bits, of the model's detail request counter (u64 in the source).
IdBits == 4
\* Lines the model's activity log keeps (MAX_LOG_LINES is 300 in the source).
MaxLogLines == 2
\* Body rows of every list panel (ui_rects height minus the two border rows).
PanelRows == 2
\* Characters the text-input modal holds.
MaxInputLen == 1
\* Lines of a fetched diff or patch (the text of a detail fetch's output).
DiffLines == 4

\* Refreshes the client runs in one run of the program.
MaxRefreshes == 2
\* Revisions of a log and rows of a graph handed to the graph merge.
MaxRevisions == 3
MaxGraphRows == 3
MaxRawLen == 4
MaxCommandLen == 5
MaxBindingLen == 5

\* Seconds after which the periodic timer refreshes (Duration::from_secs(7)).
REFRESH_THROTTLE_SECS == 7

\* The number of revisions a refresh asks the log for.
LOG_LIMIT == 200

\* --------------------------------------------------------------- Option<T>

None == <<>>
Some(x) == <<x>>
IsSome(o) == o # <<>>
Unwrap(o) == o[1]

Min(a, b) == IF a <= b THEN a ELSE b
Max(a, b) == IF a >= b THEN a ELSE b
saturating_sub(a, b) == IF a >= b THEN a - b ELSE 0
\* A clamp with no upper limit.
clamp_below_only(x, lo, hi) == IF x < lo THEN lo ELSE x
clamp(x, lo, hi) == IF x < lo THEN lo ELSE IF x > hi THEN hi ELSE x

RECURSIVE Pow2(_)
Pow2(n) == IF n = 0 THEN 1 ELSE 2 * Pow2(n - 1)

Range(seq) == {seq[i] : i \in 1..Len(seq)}

\* The sequences of at most n elements of S.
SeqsUpTo(S, n) == UNION {[1..k -> S] : k \in 0..n}

\* Vec::get(idx): idx is 0-based.
Get(seq, idx) == IF idx < Len(seq) THEN Some(seq[idx + 1]) ELSE None

RemoveAt(seq, i) == SubSeq(seq, 1, i - 1) \o SubSeq(seq, i + 1, Len(seq))

\* ------------------------------------------------------------- FocusPanel

FocusPanel_all == <<"Files", "Revisions", "Bookmarks", "Shelves", "Conflicts", "Log">>

position(panel) == CHOOSE i \in 1..Len(FocusPanel_all) : FocusPanel_all[i] = panel

\* ------------------------------------------------------------ RepoSnapshot

build_rebase_state(in_progress, conflicts) ==
    [in_progress |-> in_progress,
     unresolved_conflicts |-> Cardinality({i \in 1..Len(conflicts) : ~conflicts[i].resolved})]

Rev(n, graph) == [rev |-> n, graph_prefix |-> graph]

\* What one run of the assembler returns on success.
MkSnapshot(files, revisions, bookmarks, shelves, conflicts, in_progress, caps) ==
    [repo_root |-> TRUE,
     files |-> files,
     revisions |-> revisions,
     bookmarks |-> bookmarks,
     shelves |-> shelves,
     conflicts |-> conflicts,
     rebase |-> build_rebase_state(in_progress, conflicts),
     capabilities |-> caps]

Caps(rebase, histedit, shelve) ==
    [has_rebase |-> rebase, has_histedit |-> histedit, has_shelve |-> shelve]

\* RepoSnapshot::default()
RepoSnapshot_default ==
    [repo_root |-> FALSE,
     files |-> <<>>,
     revisions |-> <<>>,
     bookmarks |-> <<>>,
     shelves |-> <<>>,
     conflicts |-> <<>>,
     rebase |-> [in_progress |-> FALSE, unresolved_conflicts |-> 0],
     capabilities |-> Caps(FALSE, FALSE, FALSE)]

\* ----------------------------------------------------------------- UiRects

\* The heights of the rectangles of ui::UiRects: the layout is reduced to one
\* height for the six panels and one for the detail pane.
UiRects(panel, details) == [panel |-> panel, details |-> details]

\* UiRects::default(): every rectangle is empty.
UiRects_default == UiRects(0, 0)

\* ui::compute_ui_rects for a frame that gives every rectangle `height` lines.
compute_ui_rects(height) == UiRects(height, height)

\* ------------------------------------------------- HgAction, PendingRunAction

\* One record shape for every variant; unused fields keep their defaults.
HgAction(type) ==
    [variant |-> "Hg", type |-> type, rev |-> 0, dest |-> 0, name |-> "",
     files |-> {}, show_output |-> FALSE]

CustomRunAction(id, show_output) ==
    [variant |-> "Custom", type |-> "Custom", rev |-> 0, dest |-> 0, name |-> id,
     files |-> {}, show_output |-> show_output]

show_output(action) == IF action.variant = "Hg" THEN FALSE ELSE action.show_output

\* A session in which every command clears the commit selection on success.
clears_commit_selection_on_success_always(action) == TRUE

clears_commit_selection_on_success(action) ==
    action.variant = "Hg" /\ action.type = "Commit"

outcome_kind(action) ==
    IF action.variant # "Hg" THEN "Other"
    ELSE CASE action.type = "RebaseSourceDest" -> "RebaseStart"
           [] action.type = "RebaseContinue" -> "RebaseContinue"
           [] action.type = "RebaseAbort" -> "RebaseAbort"
           [] action.type = "ResolveMark" -> "ResolveMark"
           [] action.type = "ResolveUnmark" -> "ResolveUnmark"
           [] OTHER -> "Other"

\* The text shown in the detail pane: fixed texts carry of = 0, the output of
\* detail fetch number n carries of = n.
Detail(text) == [text |-> text, of |-> 0]

\* ------------------------------------------------------------------- state

VARIABLES
    focus, snapshot, detail_text, details_scroll, log_lines, status_line,
    input, confirmation, command_palette, commit_file_selection,
    interactive_commit_request, should_quit,
    files_idx, rev_idx, bookmarks_idx, shelves_idx, conflicts_idx, log_idx,
    files_offset, rev_offset, bookmarks_offset, shelves_offset, conflicts_offset,
    last_refresh, detail_request_id, pending_rebase_source,
    commit_graph_warning_emitted, rebase_unavailable_notice_emitted,
    last_rebase_hint, ui_rects, last_mouse_click, tasks, custom_commands, last_event,
    hg, call

vars == <<focus, snapshot, detail_text, details_scroll, log_lines, status_line,
          input, confirmation, command_palette, commit_file_selection,
          interactive_commit_request, should_quit,
          files_idx, rev_idx, bookmarks_idx, shelves_idx, conflicts_idx, log_idx,
          files_offset, rev_offset, bookmarks_offset, shelves_offset, conflicts_offset,
          last_refresh, detail_request_id, pending_rebase_source,
          commit_graph_warning_emitted, rebase_unavailable_notice_emitted,
          last_rebase_hint, ui_rects, last_mouse_click, tasks, custom_commands,
          last_event, hg, call>>

\* Every field of App: all of the state but the units in flight and the
\* loop's position.
session == <<focus, snapshot, detail_text, details_scroll, log_lines, status_line,
             input, confirmation, command_palette, commit_file_selection,
             interactive_commit_request, should_quit,
             files_idx, rev_idx, bookmarks_idx, shelves_idx, conflicts_idx, log_idx,
             files_offset, rev_offset, bookmarks_offset, shelves_offset,
             conflicts_offset, last_refresh, detail_request_id, pending_rebase_source,
             commit_graph_warning_emitted, rebase_unavailable_notice_emitted,
             last_rebase_hint, ui_rects, last_mouse_click, custom_commands>>

\* The session as one record: what a method of App reads and returns.
\* last_refresh holds the seconds elapsed since the Instant it stores,
\* saturating at REFRESH_THROTTLE_SECS.
Self ==
    [focus |-> focus, snapshot |-> snapshot, detail_text |-> detail_text,
     details_scroll |-> details_scroll, log_lines |-> log_lines,
     status_line |-> status_line, input |-> input, confirmation |-> confirmation,
     command_palette |-> command_palette,
     commit_file_selection |-> commit_file_selection,
     interactive_commit_request |-> interactive_commit_request,
     should_quit |-> should_quit,
     files_idx |-> files_idx, rev_idx |-> rev_idx, bookmarks_idx |-> bookmarks_idx,
     shelves_idx |-> shelves_idx, conflicts_idx |-> conflicts_idx, log_idx |-> log_idx,
     files_offset |-> files_offset, rev_offset |-> rev_offset,
     bookmarks_offset |-> bookmarks_offset, shelves_offset |-> shelves_offset,
     conflicts_offset |-> conflicts_offset,
     last_refresh |-> last_refresh, detail_request_id |-> detail_request_id,
     pending_rebase_source |-> pending_rebase_source,
     commit_graph_warning_emitted |-> commit_graph_warning_emitted,
     rebase_unavailable_notice_emitted |-> rebase_unavailable_notice_emitted,
     last_rebase_hint |-> last_rebase_hint, ui_rects |-> ui_rects,
     last_mouse_click |-> last_mouse_click, tasks |-> tasks,
     custom_commands |-> custom_commands]

\* Store every field of the session s; the client and the function under
\* evaluation are no part of it.
Becomes(s) ==
    /\ UNCHANGED <<hg, call>>
    /\ focus' = s.focus
    /\ snapshot' = s.snapshot
    /\ detail_text' = s.detail_text
    /\ details_scroll' = s.details_scroll
    /\ log_lines' = s.log_lines
    /\ status_line' = s.status_line
    /\ input' = s.input
    /\ confirmation' = s.confirmation
    /\ command_palette' = s.command_palette
    /\ commit_file_selection' = s.commit_file_selection
    /\ interactive_commit_request' = s.interactive_commit_request
    /\ should_quit' = s.should_quit
    /\ files_idx' = s.files_idx
    /\ rev_idx' = s.rev_idx
    /\ bookmarks_idx' = s.bookmarks_idx
    /\ shelves_idx' = s.shelves_idx
    /\ conflicts_idx' = s.conflicts_idx
    /\ log_idx' = s.log_idx
    /\ files_offset' = s.files_offset
    /\ rev_offset' = s.rev_offset
    /\ bookmarks_offset' = s.bookmarks_offset
    /\ shelves_offset' = s.shelves_offset
    /\ conflicts_offset' = s.conflicts_offset
    /\ last_refresh' = s.last_refresh
    /\ detail_request_id' = s.detail_request_id
    /\ pending_rebase_source' = s.pending_rebase_source
    /\ commit_graph_warning_emitted' = s.commit_graph_warning_emitted
    /\ rebase_unavailable_notice_emitted' = s.rebase_unavailable_notice_emitted
    /\ last_rebase_hint' = s.last_rebase_hint
    /\ ui_rects' = s.ui_rects
    /\ last_mouse_click' = s.last_mouse_click
    /\ tasks' = s.tasks
    /\ custom_commands' = s.custom_commands

\* ------------------------------------------------------- command previews

\* HgAction::command_preview / CustomInvocation::command_preview
command_preview(action) ==
    IF action.variant = "Custom" THEN action.name
    ELSE CASE action.type = "Commit" ->
                IF action.files = {} THEN "hg commit -m <message>"
                ELSE "hg commit -m <message> <" \o ToString(Cardinality(action.files)) \o " files>"
           [] action.type = "Pull" -> "hg pull -u"
           [] action.type = "Push" -> "hg push"
           [] action.type = "Incoming" -> "hg incoming"
           [] action.type = "Outgoing" -> "hg outgoing"
           [] action.type = "BookmarkCreate" -> "hg bookmark " \o action.name
           [] action.type = "UpdateToRevision" -> "hg update -r " \o ToString(action.rev)
           [] action.type = "UpdateToBookmark" -> "hg update " \o action.name
           [] action.type = "ShelveCreate" -> "hg shelve --name " \o action.name
           [] action.type = "Unshelve" -> "hg unshelve --name " \o action.name
           [] action.type = "ResolveMark" -> "hg resolve -m " \o action.name
           [] action.type = "ResolveUnmark" -> "hg resolve -u " \o action.name
           [] action.type = "RebaseSourceDest" ->
                "hg rebase -s " \o ToString(action.rev) \o " -d " \o ToString(action.dest)
           [] action.type = "RebaseContinue" -> "hg rebase --continue"
           [] action.type = "RebaseAbort" -> "hg rebase --abort"
           [] action.type = "HisteditBase" -> "hg histedit " \o ToString(action.rev)

\* ------------------------------------------------------------ App: helpers

\* A full log that refuses the new line instead of dropping the oldest.
append_log_keeps_oldest(s, line) ==
    IF Len(s.log_lines) >= MaxLogLines THEN s
    ELSE [s EXCEPT !.log_lines = Append(@, line)]

\* App::append_log (the timestamp prefix is left out of the line).
append_log(s, line) ==
    LET pushed == Append(s.log_lines, line)
        extra == Len(pushed) - MaxLogLines
    IN  [s EXCEPT !.log_lines =
            IF Len(pushed) > MaxLogLines THEN SubSeq(pushed, extra + 1, Len(pushed))
            ELSE pushed]

\* App::set_detail_text
set_detail_text(s, text) == [s EXCEPT !.detail_text = text, !.details_scroll = 0]

\* App::panel_len
panel_len(s, panel) ==
    CASE panel = "Files" -> Len(s.snapshot.files)
      [] panel = "Revisions" -> Len(s.snapshot.revisions)
      [] panel = "Bookmarks" -> Len(s.snapshot.bookmarks)
      [] panel = "Shelves" -> Len(s.snapshot.shelves)
      [] panel = "Conflicts" -> Len(s.snapshot.conflicts)
      [] panel = "Log" -> Len(s.log_lines)

\* App::panel_index
panel_index(s, panel) ==
    CASE panel = "Files" -> s.files_idx
      [] panel = "Revisions" -> s.rev_idx
      [] panel = "Bookmarks" -> s.bookmarks_idx
      [] panel = "Shelves" -> s.shelves_idx
      [] panel = "Conflicts" -> s.conflicts_idx
      [] panel = "Log" -> s.log_idx

\* App::set_panel_index
set_panel_index(s, panel, index) ==
    CASE panel = "Files" -> [s EXCEPT !.files_idx = index]
      [] panel = "Revisions" -> [s EXCEPT !.rev_idx = index]
      [] panel = "Bookmarks" -> [s EXCEPT !.bookmarks_idx = index]
      [] panel = "Shelves" -> [s EXCEPT !.shelves_idx = index]
      [] panel = "Conflicts" -> [s EXCEPT !.conflicts_idx = index]
      [] panel = "Log" -> [s EXCEPT !.log_idx = index]

\* App::panel_offset (the Log panel has no offset of its own: it is log_idx)
panel_offset(s, panel) ==
    CASE panel = "Files" -> s.files_offset
      [] panel = "Revisions" -> s.rev_offset
      [] panel = "Bookmarks" -> s.bookmarks_offset
      [] panel = "Shelves" -> s.shelves_offset
      [] panel = "Conflicts" -> s.conflicts_offset
      [] panel = "Log" -> s.log_idx

\* App::set_panel_offset
set_panel_offset(s, panel, offset) ==
    CASE panel = "Files" -> [s EXCEPT !.files_offset = offset]
      [] panel = "Revisions" -> [s EXCEPT !.rev_offset = offset]
      [] panel = "Bookmarks" -> [s EXCEPT !.bookmarks_offset = offset]
      [] panel = "Shelves" -> [s EXCEPT !.shelves_offset = offset]
      [] panel = "Conflicts" -> [s EXCEPT !.conflicts_offset = offset]
      [] panel = "Log" -> [s EXCEPT !.log_idx = offset]

\* App::panel_rect: the height of the panel's rectangle.
panel_rect(s, panel) == s.ui_rects.panel

\* App::panel_body_rows: the panel rectangle's height minus its two borders.
panel_body_rows(s, panel) == saturating_sub(panel_rect(s, panel), 2)

\* App::detail_body_rows
detail_body_rows(s) == saturating_sub(s.ui_rects.details, 2)

\* str::split('\n').count() of a text of the detail pane: a fetched diff or
\* patch has DiffLines lines, every other text of the model is one line.
line_count(text) == IF text = "diff" THEN DiffLines ELSE 1

\* App::detail_line_count
detail_line_count(s) == line_count(s.detail_text.text)

\* App::max_detail_scroll
max_detail_scroll(s) == saturating_sub(detail_line_count(s), Max(detail_body_rows(s), 1))

\* App::detail_scroll_offset
detail_scroll_offset(s) == Min(s.details_scroll, max_detail_scroll(s))

\* App::ensure_visible
ensure_visible(s, panel) ==
    IF panel = "Log" THEN s
    ELSE
    LET len == panel_len(s, panel) IN
    IF len = 0 THEN set_panel_offset(set_panel_index(s, panel, 0), panel, 0)
    ELSE
    LET idx0 == Min(panel_index(s, panel), saturating_sub(len, 1))
        rows == Max(panel_body_rows(s, panel), 1)
        max_offset == saturating_sub(len, rows)
        offset1 == Min(panel_offset(s, panel), max_offset)
        offset2 == IF idx0 < offset1 THEN idx0
                   ELSE IF idx0 >= offset1 + rows THEN idx0 + 1 - rows
                   ELSE offset1
        offset3 == Min(offset2, max_offset)
        idx1 == Min(idx0, saturating_sub(len, 1))
    IN  set_panel_offset(set_panel_index(s, panel, idx1), panel, offset3)

\* The index clamp at the head of App::adjust_indexes, for one panel.
clamp_index(s, panel) ==
    IF panel_index(s, panel) >= panel_len(s, panel)
    THEN set_panel_index(s, panel, saturating_sub(panel_len(s, panel), 1))
    ELSE s

\* A session that keeps every selected path across a refresh.
retain_current_paths_never(s) == s

\* The retain() of App::adjust_indexes: selected paths still in the file list.
retain_current_paths(s) ==
    [s EXCEPT !.commit_file_selection = @ \cap Range(s.snapshot.files)]

\* App::adjust_indexes
adjust_indexes(s) ==
    LET s1 == clamp_index(s, "Files")
        s2 == clamp_index(s1, "Revisions")
        s3 == clamp_index(s2, "Bookmarks")
        s4 == clamp_index(s3, "Shelves")
        s5 == clamp_index(s4, "Conflicts")
        s6 == clamp_index(s5, "Log")
        s7 == retain_current_paths(s6)
        s8 == ensure_visible(s7, "Files")
        s9 == ensure_visible(s8, "Revisions")
        s10 == ensure_visible(s9, "Bookmarks")
        s11 == ensure_visible(s10, "Shelves")
    IN  ensure_visible(s11, "Conflicts")

\* tokio::spawn: one more background unit in flight.
spawn(s, task) == [s EXCEPT !.tasks = Append(@, task)]

\* SnapshotOptions, the argument of HgClient::refresh_snapshot.
SnapshotOptions(revision_limit, include_revisions) ==
    [revision_limit |-> revision_limit, include_revisions |-> include_revisions]

SnapshotTask(preserve_details, include_revisions) ==
    [kind |-> "snapshot", preserve_details |-> preserve_details,
     include_revisions |-> include_revisions,
     options |-> SnapshotOptions(LOG_LIMIT, include_revisions)]

DetailTask(request_id) == [kind |-> "detail", request_id |-> request_id]

ActionTask(action) ==
    [kind |-> "action", action |-> action,
     action_kind |-> outcome_kind(action),
     action_preview |-> command_preview(action),
     show_output |-> show_output(action),
     clear_commit_selection |-> clears_commit_selection_on_success(action)]

\* App::refresh_snapshot_with_mode
refresh_snapshot_with_mode(s, preserve_details, include_revisions) ==
    spawn([s EXCEPT !.last_refresh = 0,
                    !.status_line = "Refreshing repository state..."],
          SnapshotTask(preserve_details, include_revisions))

\* A manual refresh that leaves the revisions out, as the timer's does.
refresh_snapshot_light(s, preserve_details) ==
    refresh_snapshot_with_mode(s, preserve_details, FALSE)

\* App::refresh_snapshot
refresh_snapshot(s, preserve_details) ==
    refresh_snapshot_with_mode(s, preserve_details, TRUE)

\* A timer that refreshes on every tick.
periodic_refresh_unthrottled(s) == refresh_snapshot_with_mode(s, TRUE, FALSE)

\* App::periodic_refresh
periodic_refresh(s) ==
    IF s.last_refresh >= REFRESH_THROTTLE_SECS
    THEN refresh_snapshot_with_mode(s, TRUE, FALSE)
    ELSE s

\* An addition that stops at the largest value of the width.
saturating_add(x, y) == Min(x + y, Pow2(IdBits) - 1)

\* u64::wrapping_add
wrapping_add(x, y) == (x + y) % Pow2(IdBits)

\* The request id a detail fetch issued now is tagged with.
next_request_id(s) == wrapping_add(s.detail_request_id, 1)

\* App::refresh_detail_for_focus
refresh_detail_for_focus(s) ==
    LET request_id == next_request_id(s)
        s1 == [s EXCEPT !.details_scroll = 0, !.detail_request_id = request_id]
    IN  CASE s.focus = "Files" ->
                IF IsSome(Get(s.snapshot.files, s.files_idx))
                THEN spawn(s1, DetailTask(request_id)) ELSE s1
          [] s.focus = "Revisions" ->
                IF IsSome(Get(s.snapshot.revisions, s.rev_idx))
                THEN spawn(s1, DetailTask(request_id)) ELSE s1
          [] OTHER ->
                set_detail_text(s1, Detail("Select a file or revision to view details."))

\* App::detail_target
detail_target(s) ==
    CASE s.focus = "Files" ->
            IF IsSome(Get(s.snapshot.files, s.files_idx))
            THEN <<"File", Unwrap(Get(s.snapshot.files, s.files_idx))>> ELSE <<"None">>
      [] s.focus = "Revisions" ->
            IF IsSome(Get(s.snapshot.revisions, s.rev_idx))
            THEN <<"Revision", Unwrap(Get(s.snapshot.revisions, s.rev_idx)).rev>>
            ELSE <<"None">>
      [] OTHER -> <<"None">>

\* App::update_rebase_hint_log
update_rebase_hint_log(s, hint) ==
    IF hint # s.last_rebase_hint
    THEN [(IF IsSome(hint) THEN append_log(s, Unwrap(hint)) ELSE s)
            EXCEPT !.last_rebase_hint = hint]
    ELSE s

\* App::rebase_status_hint_from_snapshot
rebase_status_hint_from_snapshot(s) ==
    IF ~s.snapshot.capabilities.has_rebase \/ ~s.snapshot.rebase.in_progress THEN None
    ELSE IF s.snapshot.rebase.unresolved_conflicts > 0
    THEN Some("Rebase in progress: "
              \o ToString(s.snapshot.rebase.unresolved_conflicts)
              \o " unresolved conflict(s).")
    ELSE Some("Rebase in progress: all conflicts resolved.")

\* App::refresh_rebase_status_hint_from_snapshot
refresh_rebase_status_hint_from_snapshot(s) ==
    LET hint == rebase_status_hint_from_snapshot(s)
        s1 == IF IsSome(hint) THEN [s EXCEPT !.status_line = Unwrap(hint)]
              ELSE IF IsSome(s.last_rebase_hint)
              THEN append_log([s EXCEPT !.status_line = "Rebase is no longer in progress."],
                              "Rebase is no longer in progress.")
              ELSE s
    IN  update_rebase_hint_log(s1, hint)

\* ------------------------------------------------- App: handle_app_event

\* A session that takes the revision list of every loaded snapshot as it is.
carry_forward_revisions_never(s, loaded, include_revisions) == loaded

\* The revision list of a loaded snapshot: a refresh without revisions keeps
\* the list the session already holds.
carry_forward_revisions(s, loaded, include_revisions) ==
    IF ~include_revisions
    THEN [loaded EXCEPT !.revisions = s.snapshot.revisions]
    ELSE loaded

\* The commit-graph notice of a loaded snapshot.
note_commit_graph(s, include_revisions) ==
    IF include_revisions
    THEN LET has_graph_rows ==
                 \E i \in 1..Len(s.snapshot.revisions) : s.snapshot.revisions[i].graph_prefix
         IN  IF s.snapshot.revisions # <<>> /\ ~has_graph_rows
             THEN [(IF ~s.commit_graph_warning_emitted
                    THEN append_log(s, "Commit graph unavailable; showing flat commit list.")
                    ELSE s)
                   EXCEPT !.commit_graph_warning_emitted = TRUE,
                          !.status_line = "Repository state refreshed (flat commit list)."]
             ELSE [s EXCEPT !.commit_graph_warning_emitted = FALSE,
                            !.status_line = "Repository state refreshed."]
    ELSE [s EXCEPT !.status_line = "Repository state refreshed."]

\* Whether the pending rebase source is a revision of the session's list.
source_still_visible(s, source_rev) ==
    \E i \in 1..Len(s.snapshot.revisions) : s.snapshot.revisions[i].rev = source_rev

\* A session that keeps its pending rebase source across every refresh.
clear_vanished_rebase_source_never(s) == s

\* A pending rebase source that left the revision list is dropped.
clear_vanished_rebase_source(s) ==
    IF IsSome(s.pending_rebase_source)
       /\ ~source_still_visible(s, Unwrap(s.pending_rebase_source))
    THEN append_log([s EXCEPT !.pending_rebase_source = None],
                    "Rebase source revision "
                    \o ToString(Unwrap(s.pending_rebase_source))
                    \o " disappeared; selection cleared.")
    ELSE s

\* The once-only notice that the rebase extension is missing.
note_rebase_unavailable(s) ==
    IF ~s.snapshot.capabilities.has_rebase /\ ~s.rebase_unavailable_notice_emitted
    THEN [append_log(s, "Rebase unavailable: enable the Mercurial 'rebase' extension.")
            EXCEPT !.rebase_unavailable_notice_emitted = TRUE]
    ELSE IF s.snapshot.capabilities.has_rebase
    THEN [s EXCEPT !.rebase_unavailable_notice_emitted = FALSE]
    ELSE s

\* A failed refresh that installs the empty snapshot.
refresh_failed_cleared(s) ==
    append_log(
        update_rebase_hint_log([s EXCEPT !.status_line = "Snapshot refresh failed.",
                                         !.snapshot = RepoSnapshot_default],
                               None),
        "Refresh failed")

\* AppEvent::SnapshotLoaded, the Err arm.
refresh_failed(s) ==
    append_log(
        update_rebase_hint_log([s EXCEPT !.status_line = "Snapshot refresh failed."],
                               None),
        "Refresh failed")

\* A refresh that keeps the detail pane whenever it was asked to.
reloads_detail_unless_preserved(preserve_details, detail_target_changed) == ~preserve_details

\* Whether a loaded snapshot makes the session fetch the detail again.
reloads_detail(preserve_details, detail_target_changed) ==
    ~preserve_details \/ detail_target_changed

\* AppEvent::SnapshotLoaded
SnapshotLoaded(s, preserve_details, include_revisions, result) ==
    IF result.ok
    THEN LET previous_detail_target == detail_target(s)
             s1 == [s EXCEPT !.snapshot =
                       carry_forward_revisions(s, result.snapshot, include_revisions)]
             s2 == adjust_indexes(s1)
             s3 == note_commit_graph(s2, include_revisions)
             s4 == clear_vanished_rebase_source(s3)
             s5 == note_rebase_unavailable(s4)
             detail_target_changed == previous_detail_target # detail_target(s5)
             s6 == IF reloads_detail(preserve_details, detail_target_changed)
                   THEN refresh_detail_for_focus(s5) ELSE s5
             s7 == refresh_rebase_status_hint_from_snapshot(s6)
         IN  append_log(s7, "Snapshot refreshed")
    ELSE refresh_failed(s)

\* A session that shows whatever detail output arrives.
is_latest_detail_any(s, request_id) == TRUE

\* Whether a detail completion is the answer to the latest request.
is_latest_detail(s, request_id) == request_id = s.detail_request_id

\* AppEvent::DetailLoaded.  result.text is "" for blank output.
DetailLoaded(s, request_id, result) ==
    IF is_latest_detail(s, request_id)
    THEN IF result.ok
         THEN set_detail_text(s, [text |-> IF result.text = "" THEN "No diff output."
                                           ELSE result.text,
                                  of |-> request_id])
         ELSE set_detail_text(s, [text |-> "Failed loading detail", of |-> request_id])
    ELSE s

\* App::handle_rebase_action_success_hint
handle_rebase_action_success_hint(s, action_kind, preview) ==
    LET unresolved ==
            IF action_kind = "ResolveMark"
            THEN saturating_sub(s.snapshot.rebase.unresolved_conflicts, 1)
            ELSE s.snapshot.rebase.unresolved_conflicts + 1
        hint ==
            CASE action_kind = "RebaseStart" ->
                    "Rebase started. Refreshing state to determine next step..."
              [] action_kind = "RebaseContinue" ->
                    "Rebase continue ran. Refreshing state to verify progress..."
              [] action_kind = "RebaseAbort" -> "Rebase abort ran. Refreshing state..."
              [] action_kind \in {"ResolveMark", "ResolveUnmark"} ->
                    IF s.snapshot.rebase.in_progress
                    THEN IF unresolved = 0
                         THEN "All conflicts appear resolved. Press C to continue rebase."
                         ELSE "Conflict state updated. ~" \o ToString(unresolved)
                              \o " unresolved conflict(s) remain before continue."
                    ELSE "Completed: " \o preview
              [] OTHER -> "Completed: " \o preview
    IN  [s EXCEPT !.status_line = hint]

\* App::handle_rebase_action_failure_hint
handle_rebase_action_failure_hint(s, action_kind, preview) ==
    [s EXCEPT !.status_line =
        CASE action_kind = "RebaseStart" -> "Rebase start failed: " \o preview
          [] action_kind = "RebaseContinue" -> "Rebase continue failed: " \o preview
          [] action_kind = "RebaseAbort" -> "Rebase abort failed: " \o preview
          [] action_kind \in {"ResolveMark", "ResolveUnmark"} ->
                "Conflict resolution command failed: " \o preview
          [] OTHER -> "Command failed: " \o preview]

\* A session that issues no refresh when a command has finished.
refresh_after_action_skipped(s) == s

\* A session that follows a finished command with the periodic kind of refresh.
refresh_after_action_light(s) == refresh_snapshot_with_mode(s, FALSE, FALSE)

\* The refresh a finished command is followed by.
refresh_after_action(s) == refresh_snapshot(s, FALSE)

\* The status line once the follow-up refresh has been issued.
restore_status(s, preserve_status_after_refresh) ==
    IF IsSome(preserve_status_after_refresh)
    THEN [s EXCEPT !.status_line = Unwrap(preserve_status_after_refresh)]
    ELSE s

\* AppEvent::ActionFinished.  result.outcome is "success" or "failure" (the
\* process ran: Ok(out) with out.success) or "error" (Err: it never ran);
\* result.output says whether the command printed anything.
ActionFinished(s, ev, result) ==
    CASE result.outcome = "success" ->
            LET s1 == handle_rebase_action_success_hint(s, ev.action_kind, ev.action_preview)
                preserve == IF ev.action_kind # "Other" THEN Some(s1.status_line) ELSE None
                s2 == append_log(s1, "OK: " \o ev.action_preview)
                s3 == IF ev.clear_commit_selection
                      THEN [s2 EXCEPT !.commit_file_selection = {}] ELSE s2
                s4 == IF ev.show_output /\ result.output
                      THEN set_detail_text(s3, Detail("stdout: " \o ev.action_preview))
                      ELSE s3
            IN  restore_status(refresh_after_action(s4), preserve)
      [] result.outcome = "failure" ->
            LET s1 == handle_rebase_action_failure_hint(s, ev.action_kind, ev.action_preview)
                s2 == append_log(s1, "FAILED: " \o ev.action_preview)
                s3 == set_detail_text(s2, Detail("FAILED: " \o ev.action_preview))
                preserve == IF ev.action_kind # "Other" THEN Some(s3.status_line) ELSE None
            IN  restore_status(refresh_after_action(s3), preserve)
      [] result.outcome = "error" ->
            set_detail_text(
                append_log([s EXCEPT !.status_line = "Command error: " \o ev.action_preview],
                           "ERROR: " \o ev.action_preview),
                Detail("ERROR: " \o ev.action_preview))

\* ------------------------------------------------------ keys and the keymap

\* A crossterm KeyEvent: its code, the character of a Char code, and the
\* modifiers the bindings use.
KeyEvent(code, ch, ctrl, super) == [code |-> code, ch |-> ch, ctrl |-> ctrl, super |-> super]
Char(c) == KeyEvent("Char", c, FALSE, FALSE)
Named(code) == KeyEvent(code, "", FALSE, FALSE)

\* actions.rs canonicalize_key_event / canonical_key_string
canonicalize_key_event(event) ==
    LET shift == event.code = "BackTab"
        key == CASE event.code = "Char" -> event.ch
                 [] event.code = "Tab" -> "tab"
                 [] event.code = "BackTab" -> "tab"
                 [] event.code = "Up" -> "up"
                 [] event.code = "Down" -> "down"
                 [] event.code = "Enter" -> "enter"
                 [] event.code = "Esc" -> "esc"
                 [] event.code = "Backspace" -> "backspace"
                 [] OTHER -> ""
    IN  IF key = "" THEN None
        ELSE Some((IF event.ctrl THEN "ctrl+" ELSE "")
                  \o (IF event.super THEN "cmd+" ELSE "")
                  \o (IF shift THEN "shift+" ELSE "")
                  \o key)

\* actions.rs DEFAULT_BINDINGS
DEFAULT_BINDINGS == <<
    <<"Quit", "q">>, <<"Help", "?">>, <<"FocusNext", "tab">>,
    <<"FocusPrev", "shift+tab">>, <<"MoveDown", "down">>, <<"MoveDown", "j">>,
    <<"MoveUp", "up">>, <<"MoveUp", "k">>, <<"RefreshSnapshot", "cmd+r">>,
    <<"RefreshDetails", "d">>, <<"OpenCustomCommands", ":">>,
    <<"ToggleFileForCommit", "v">>, <<"ClearFileSelection", "V">>,
    <<"Commit", "c">>, <<"CommitInteractive", "I">>, <<"Bookmark", "b">>,
    <<"Shelve", "s">>, <<"Push", "p">>, <<"Pull", "P">>, <<"Incoming", "i">>,
    <<"Outgoing", "o">>, <<"UpdateSelected", "u">>, <<"UnshelveSelected", "U">>,
    <<"ResolveMark", "m">>, <<"ResolveUnmark", "M">>, <<"RebaseSelected", "r">>,
    <<"RebaseContinue", "C">>, <<"RebaseAbort", "A">>, <<"HisteditSelected", "H">>,
    <<"HardRefresh", "ctrl+l">> >>

\* ActionKeyMap::action_for_event under the built-in bindings.
action_for_event(event) ==
    LET canonical == canonicalize_key_event(event)
        hits == {i \in 1..Len(DEFAULT_BINDINGS) :
                    Some(DEFAULT_BINDINGS[i][2]) = canonical}
    IN  IF hits = {} THEN None
        ELSE Some(DEFAULT_BINDINGS[CHOOSE i \in hits : \A j \in hits : j <= i][1])

\* ---------------------------------------------------------- App: dispatch

\* App::run_pending_action
run_pending_action(s, action) ==
    spawn([s EXCEPT !.status_line = "Running: " \o command_preview(action)],
          ActionTask(action))

\* App::run_hg_action
run_hg_action(s, action) == run_pending_action(s, action)

\* A session that starts a command where it should ask.
confirm_action_direct(s, action, message) == run_pending_action(s, action)

\* App::confirm_action
confirm_action(s, action, message) ==
    [s EXCEPT !.confirmation = Some([action |-> action, message |-> message])]

\* App::open_input
open_input(s, purpose, title) ==
    [s EXCEPT !.input = Some([title |-> title, value |-> <<>>, purpose |-> purpose])]

\* App::selected_revision
selected_revision(s) == Get(s.snapshot.revisions, s.rev_idx)

\* App::cycle_focus
cycle_focus(s, forward) ==
    LET pos == position(s.focus) - 1
        n == Len(FocusPanel_all)
        next == IF forward THEN (pos + 1) % n ELSE (pos + n - 1) % n
    IN  refresh_detail_for_focus([s EXCEPT !.focus = FocusPanel_all[next + 1]])

\* App::move_selection
move_selection(s, delta) ==
    IF s.focus = "Log"
    THEN IF Len(s.log_lines) = 0 THEN [s EXCEPT !.log_idx = 0]
         ELSE [s EXCEPT !.log_idx = clamp(s.log_idx + delta, 0, Len(s.log_lines) - 1)]
    ELSE
    LET len == panel_len(s, s.focus) IN
    IF len = 0 THEN set_panel_offset(set_panel_index(s, s.focus, 0), s.focus, 0)
    ELSE
    LET next == clamp(panel_index(s, s.focus) + delta, 0, len - 1)
        s1 == ensure_visible(set_panel_index(s, s.focus, next), s.focus)
    IN  IF s.focus \in {"Files", "Revisions"} THEN refresh_detail_for_focus(s1) ELSE s1

\* App::open_command_palette
open_command_palette(s) ==
    IF s.custom_commands = <<>>
    THEN [s EXCEPT !.status_line = "No custom commands configured."]
    ELSE [s EXCEPT !.command_palette = Some([selected |-> 0]),
                   !.status_line = "Custom commands: Enter run | Esc cancel."]

\* A session whose toggle only ever adds the file.
toggle_selected_file_for_commit_adding(s) ==
    LET file == Get(s.snapshot.files, s.files_idx) IN
    IF ~IsSome(file) THEN [s EXCEPT !.status_line = "No file selected."]
    ELSE [s EXCEPT !.commit_file_selection = @ \cup {Unwrap(file)},
                   !.status_line = "Selected for commit: " \o Unwrap(file)]

\* App::toggle_selected_file_for_commit
toggle_selected_file_for_commit(s) ==
    LET file == Get(s.snapshot.files, s.files_idx) IN
    IF ~IsSome(file) THEN [s EXCEPT !.status_line = "No file selected."]
    ELSE IF Unwrap(file) \in s.commit_file_selection
    THEN [s EXCEPT !.commit_file_selection = @ \ {Unwrap(file)},
                   !.status_line = "Removed from commit selection: " \o Unwrap(file)]
    ELSE [s EXCEPT !.commit_file_selection = @ \cup {Unwrap(file)},
                   !.status_line = "Selected for commit: " \o Unwrap(file)]

\* App::clear_file_selection
clear_file_selection(s) ==
    [s EXCEPT !.commit_file_selection = {},
              !.status_line = "Cleared commit file selection."]

\* A session that takes any revision as the destination.
same_revision_never(source_rev, selected_rev) == FALSE

\* The second press of the rebase key is on the pending source itself.
same_revision(source_rev, selected_rev) == source_rev = selected_rev

\* A session that keeps the pending source when it opens the confirmation.
open_rebase_confirmation_keeping(s, source_rev, selected_rev) ==
    confirm_action(
        [s EXCEPT !.status_line = "Rebase step 2/2: confirm source "
                      \o ToString(source_rev) \o " -> destination "
                      \o ToString(selected_rev) \o "."],
        [HgAction("RebaseSourceDest") EXCEPT !.rev = source_rev, !.dest = selected_rev],
        "Rebase step 2/2")

\* The second press of the rebase key on another revision: the confirmation
\* of source -> destination.
open_rebase_confirmation(s, source_rev, selected_rev) ==
    confirm_action(
        [s EXCEPT !.pending_rebase_source = None,
                  !.status_line = "Rebase step 2/2: confirm source "
                      \o ToString(source_rev) \o " -> destination "
                      \o ToString(selected_rev) \o "."],
        [HgAction("RebaseSourceDest") EXCEPT !.rev = source_rev, !.dest = selected_rev],
        "Rebase step 2/2")

\* App::start_or_confirm_rebase
start_or_confirm_rebase(s) ==
    IF ~s.snapshot.capabilities.has_rebase
    THEN set_detail_text([s EXCEPT !.status_line = "Rebase extension not enabled."],
                         Detail("Rebase is unavailable in this repository."))
    ELSE IF ~IsSome(selected_revision(s))
    THEN [s EXCEPT !.status_line = "No revision selected for rebase."]
    ELSE
    LET selected_rev == Unwrap(selected_revision(s)).rev IN
    IF IsSome(s.pending_rebase_source)
    THEN LET source_rev == Unwrap(s.pending_rebase_source) IN
         IF same_revision(source_rev, selected_rev)
         THEN [s EXCEPT !.status_line =
                  "Select a different destination revision, then press rebase again."]
         ELSE open_rebase_confirmation(s, source_rev, selected_rev)
    ELSE [s EXCEPT !.pending_rebase_source = Some(selected_rev),
                   !.status_line = "Rebase step 1/2: source "
                       \o ToString(selected_rev) \o " selected."]

\* A session that offers to continue whatever the repository's state.
continue_rebase_unguarded(s) ==
    confirm_action(
        [s EXCEPT !.pending_rebase_source = None,
                  !.status_line = "Rebase continue ready. Confirm to proceed."],
        HgAction("RebaseContinue"), "Continue in-progress rebase?")

\* App::continue_rebase
continue_rebase(s) ==
    IF ~s.snapshot.capabilities.has_rebase
    THEN set_detail_text([s EXCEPT !.status_line = "Rebase extension not enabled."],
                         Detail("Rebase is unavailable in this repository."))
    ELSE IF ~s.snapshot.rebase.in_progress
    THEN set_detail_text([s EXCEPT !.status_line = "No rebase is currently in progress."],
                         Detail("No rebase is currently in progress."))
    ELSE IF s.snapshot.rebase.unresolved_conflicts > 0
    THEN set_detail_text(
             [s EXCEPT !.status_line = "Cannot continue rebase: "
                 \o ToString(s.snapshot.rebase.unresolved_conflicts)
                 \o " unresolved conflict(s) remain."],
             Detail("Rebase continue is blocked."))
    ELSE confirm_action(
             [s EXCEPT !.pending_rebase_source = None,
                       !.status_line = "Rebase continue ready. Confirm to proceed."],
             HgAction("RebaseContinue"), "Continue in-progress rebase?")

\* App::abort_rebase
abort_rebase(s) ==
    IF ~s.snapshot.capabilities.has_rebase
    THEN set_detail_text([s EXCEPT !.status_line = "Rebase extension not enabled."],
                         Detail("Rebase is unavailable in this repository."))
    ELSE IF ~s.snapshot.rebase.in_progress
    THEN set_detail_text([s EXCEPT !.status_line = "No rebase is currently in progress."],
                         Detail("No rebase is currently in progress."))
    ELSE confirm_action(
             [s EXCEPT !.pending_rebase_source = None,
                       !.status_line = "Rebase abort ready. Confirm to proceed."],
             HgAction("RebaseAbort"), "Abort in-progress rebase?")

\* A session in which Esc never cancels the pending source.
cancel_pending_rebase_selection_never(s) == <<s, FALSE>>

\* App::cancel_pending_rebase_selection: <<the session, whether it cancelled>>
cancel_pending_rebase_selection(s) ==
    IF ~IsSome(s.pending_rebase_source) THEN <<s, FALSE>>
    ELSE <<[s EXCEPT !.pending_rebase_source = None,
                     !.status_line = "Rebase selection cancelled."], TRUE>>

\* App::maybe_histedit
maybe_histedit(s) ==
    IF ~s.snapshot.capabilities.has_histedit
    THEN [s EXCEPT !.status_line = "Histedit extension not enabled."]
    ELSE IF IsSome(selected_revision(s))
    THEN confirm_action(s, [HgAction("HisteditBase") EXCEPT
                                !.rev = Unwrap(selected_revision(s)).rev],
                        "Start histedit from revision?")
    ELSE [s EXCEPT !.status_line = "No revision selected for histedit."]

\* App::mark_selected_conflict
mark_selected_conflict(s, resolved) ==
    LET conflict == Get(s.snapshot.conflicts, s.conflicts_idx) IN
    IF IsSome(conflict)
    THEN run_hg_action(s, [HgAction(IF resolved THEN "ResolveMark" ELSE "ResolveUnmark")
                               EXCEPT !.name = Unwrap(conflict).path])
    ELSE [s EXCEPT !.status_line = "No conflict selected."]

\* App::unshelve_selected
unshelve_selected(s) ==
    LET shelf == Get(s.snapshot.shelves, s.shelves_idx) IN
    IF IsSome(shelf)
    THEN confirm_action(s, [HgAction("Unshelve") EXCEPT !.name = Unwrap(shelf)],
                        "Unshelve? This applies shelved changes.")
    ELSE [s EXCEPT !.status_line = "No shelf selected."]

\* App::update_action_for_selection
update_action_for_selection(s) ==
    IF s.focus = "Bookmarks"
    THEN LET bookmark == Get(s.snapshot.bookmarks, s.bookmarks_idx) IN
         IF IsSome(bookmark)
         THEN confirm_action(s, [HgAction("UpdateToBookmark") EXCEPT
                                     !.name = Unwrap(bookmark)],
                             "Update working directory to bookmark?")
         ELSE [s EXCEPT !.status_line = "No bookmark selected."]
    ELSE LET rev == Get(s.snapshot.revisions, s.rev_idx) IN
         IF IsSome(rev)
         THEN confirm_action(s, [HgAction("UpdateToRevision") EXCEPT
                                     !.rev = Unwrap(rev).rev],
                             "Update working directory to revision?")
         ELSE [s EXCEPT !.status_line = "No revision selected."]

\* ------------------------------------------------------- custom commands

\* One entry of config.custom_commands: `placeholders` are the {name}s that
\* occur in its command line, extra arguments and environment values.
CustomCommand(id, context, placeholders, show, needs_confirmation) ==
    [id |-> id, context |-> context, placeholders |-> placeholders,
     show_output |-> show, needs_confirmation |-> needs_confirmation]

\* App::custom_template_vars: <<ok, the names that are bound>>
custom_template_vars(s, command) ==
    LET has_file == IsSome(Get(s.snapshot.files, s.files_idx))
        has_rev == IsSome(Get(s.snapshot.revisions, s.rev_idx))
    IN  IF ~s.snapshot.repo_root THEN <<FALSE, {}>>
        ELSE IF command.context = "File" /\ ~has_file THEN <<FALSE, {}>>
        ELSE IF command.context = "Revision" /\ ~has_rev THEN <<FALSE, {}>>
        ELSE <<TRUE, {"repo_root", "branch"}
                     \cup (IF has_file THEN {"file"} ELSE {})
                     \cup (IF has_rev THEN {"rev", "node"} ELSE {})>>

\* App::prepare_custom_run_action: Some(action) or None (Err)
prepare_custom_run_action(s, command) ==
    LET template_vars == custom_template_vars(s, command)
        unresolved == command.placeholders \ template_vars[2]
    IN  IF ~template_vars[1] THEN None
        ELSE IF unresolved # {} THEN None
        ELSE Some(CustomRunAction(command.id, command.show_output))

\* A session whose palette stays open when a command is run from it.
close_command_palette_never(s) == s

\* self.command_palette = None
close_command_palette(s) == [s EXCEPT !.command_palette = None]

\* App::run_selected_custom_command
run_selected_custom_command(s) ==
    LET selected == IF IsSome(s.command_palette) THEN Unwrap(s.command_palette).selected
                    ELSE 0
        command == Get(s.custom_commands, selected)
        s1 == close_command_palette(s)
    IN  IF ~IsSome(command)
        THEN [s1 EXCEPT !.status_line = "No custom command selected."]
        ELSE LET prepared == prepare_custom_run_action(s1, Unwrap(command)) IN
             IF IsSome(prepared)
             THEN IF Unwrap(command).needs_confirmation
                  THEN confirm_action(s1, Unwrap(prepared), "Run custom command?")
                  ELSE run_pending_action(s1, Unwrap(prepared))
             ELSE set_detail_text(
                      append_log([s1 EXCEPT !.status_line = "Custom command not runnable."],
                                 "Custom command '" \o Unwrap(command).id \o "' failed"),
                      Detail("custom command not runnable"))

\* ------------------------------------------------------------- App: modals

\* App::handle_confirmation_key: <<the session, whether the key was consumed>>
handle_confirmation_key(s, key) ==
    IF ~IsSome(s.confirmation) THEN <<s, FALSE>>
    ELSE IF key.code = "Enter" \/ (key.code = "Char" /\ key.ch = "y")
    THEN <<run_pending_action([s EXCEPT !.confirmation = None],
                              Unwrap(s.confirmation).action), TRUE>>
    ELSE IF key.code = "Esc" \/ (key.code = "Char" /\ key.ch = "n")
    THEN <<[s EXCEPT !.confirmation = None, !.status_line = "Action cancelled."], TRUE>>
    ELSE <<s, TRUE>>

\* str::trim of the typed value, a sequence of characters
RECURSIVE trim_start(_)
trim_start(value) ==
    IF value # <<>> /\ Head(value) = " " THEN trim_start(Tail(value)) ELSE value

RECURSIVE trim_end(_)
trim_end(value) ==
    IF value # <<>> /\ value[Len(value)] = " "
    THEN trim_end(SubSeq(value, 1, Len(value) - 1)) ELSE value

trim(value) == trim_end(trim_start(value))

RECURSIVE to_string(_)
to_string(value) == IF value = <<>> THEN "" ELSE Head(value) \o to_string(Tail(value))

\* A session that refuses only the value with no character at all.
is_blank_empty_only(value) == value = <<>>

\* value.trim().is_empty()
is_blank(value) == trim(value) = <<>>

\* The submit half of App::handle_input_key: Enter on the input modal.
submit_input(s) ==
    LET in == Unwrap(s.input) IN
    IF is_blank(in.value) THEN [s EXCEPT !.status_line = "Input cannot be empty."]
    ELSE
    LET s1 == [s EXCEPT !.input = None]
        value == to_string(trim(in.value))
    IN  CASE in.purpose = "CommitMessage" ->
                run_hg_action(s1, [HgAction("Commit") EXCEPT
                                       !.files = s.commit_file_selection])
          [] in.purpose = "CommitMessageInteractive" ->
                [s1 EXCEPT !.interactive_commit_request =
                               Some([message |-> value, files |-> s.commit_file_selection]),
                           !.status_line =
                               "Launching interactive commit; complete prompts in terminal."]
          [] in.purpose = "BookmarkName" ->
                run_hg_action(s1, [HgAction("BookmarkCreate") EXCEPT !.name = value])
          [] in.purpose = "ShelveName" ->
                run_hg_action(s1, [HgAction("ShelveCreate") EXCEPT !.name = value])

\* App::handle_input_key: <<the session, whether the key was consumed>>
handle_input_key(s, key) ==
    IF ~IsSome(s.input) THEN <<s, FALSE>>
    ELSE
    LET in == Unwrap(s.input) IN
    CASE key.code = "Esc" ->
            <<[s EXCEPT !.input = None, !.status_line = "Input cancelled."], TRUE>>
      [] key.code = "Enter" -> <<submit_input(s), TRUE>>
      [] key.code = "Backspace" ->
            <<[s EXCEPT !.input = Some([in EXCEPT !.value =
                  IF @ = <<>> THEN @ ELSE SubSeq(@, 1, Len(@) - 1)])], TRUE>>
      [] key.code = "Char" ->
            <<IF ~key.ctrl
              THEN [s EXCEPT !.input = Some([in EXCEPT !.value = Append(@, key.ch)])]
              ELSE s, TRUE>>
      [] OTHER -> <<s, TRUE>>

\* App::handle_command_palette_key: <<the session, whether the key was consumed>>
handle_command_palette_key(s, key) ==
    IF ~IsSome(s.command_palette) THEN <<s, FALSE>>
    ELSE
    LET palette == Unwrap(s.command_palette)
        len == Len(s.custom_commands)
    IN  CASE key.code = "Esc" ->
                <<[s EXCEPT !.command_palette = None,
                            !.status_line = "Custom command selection cancelled."], TRUE>>
          [] key.code = "Down" \/ (key.code = "Char" /\ key.ch = "j") ->
                <<IF len > 0
                  THEN [s EXCEPT !.command_palette =
                           Some([selected |-> Min(palette.selected + 1, len - 1)])]
                  ELSE s, TRUE>>
          [] key.code = "Up" \/ (key.code = "Char" /\ key.ch = "k") ->
                <<IF palette.selected > 0
                  THEN [s EXCEPT !.command_palette =
                           Some([selected |-> palette.selected - 1])]
                  ELSE s, TRUE>>
          [] key.code = "Enter" -> <<run_selected_custom_command(s), TRUE>>
          [] OTHER -> <<s, TRUE>>

\* ------------------------------------------------------------ App: pointer

\* A crossterm MouseEvent: its kind ("Down" is the left button going down,
\* "Moved" stands for every kind handle_mouse ignores) and its position, given
\* as the rectangle that contains it (`at`: a panel, "Details", or "None" for
\* the header and footer) and the line `y` inside that rectangle, counted from
\* the rectangle's top border.  The column is one inside the side borders.
MouseEvent(kind, at, y) == [kind |-> kind, at |-> at, y |-> y]

\* A session whose pointer ignores the modals.
modal_open_never(s) == FALSE

\* The guard at the head of App::handle_mouse.
modal_open(s) == IsSome(s.confirmation) \/ IsSome(s.input) \/ IsSome(s.command_palette)

\* App::panel_at
panel_at(s, mouse) == IF mouse.at \in Range(FocusPanel_all) THEN Some(mouse.at) ELSE None

\* App::point_in_details
point_in_details(s, mouse) == mouse.at = "Details"

\* App::list_row_from_point
list_row_from_point(s, panel, mouse) ==
    IF panel = "Log" THEN None
    ELSE IF panel_rect(s, panel) <= 2 THEN None
    ELSE
    LET top == 1
        bottom_exclusive == saturating_sub(panel_rect(s, panel), 1)
        inside_body == mouse.y >= top /\ mouse.y < bottom_exclusive
        idx == panel_offset(s, panel) + (mouse.y - top)
    IN  IF ~inside_body THEN None
        ELSE IF idx < panel_len(s, panel) THEN Some(idx) ELSE None

\* App::is_double_click for the left button; `quick` says whether the previous
\* click is at most DOUBLE_CLICK_THRESHOLD_MS old.
is_double_click(s, panel, index, quick) ==
    /\ IsSome(s.last_mouse_click)
    /\ Unwrap(s.last_mouse_click).panel = panel
    /\ Unwrap(s.last_mouse_click).index = index
    /\ quick

\* A session whose wheel and double click fetch details for the Files panel only.
shows_detail_files_only(panel) == panel = "Files"

\* matches!(panel, FocusPanel::Files | FocusPanel::Revisions)
shows_detail(panel) == panel \in {"Files", "Revisions"}

\* App::scroll_panel
scroll_panel(s, panel, delta) ==
    LET s0 == [s EXCEPT !.focus = panel] IN
    IF panel = "Log"
    THEN IF Len(s0.log_lines) = 0 THEN [s0 EXCEPT !.log_idx = 0]
         ELSE [s0 EXCEPT !.log_idx = clamp(s0.log_idx + delta, 0, Len(s0.log_lines) - 1)]
    ELSE
    LET len == panel_len(s0, panel) IN
    IF len = 0 THEN set_panel_offset(set_panel_index(s0, panel, 0), panel, 0)
    ELSE
    LET next == clamp(panel_index(s0, panel) + delta, 0, len - 1)
        s1 == ensure_visible(set_panel_index(s0, panel, next), panel)
    IN  IF shows_detail(panel) THEN refresh_detail_for_focus(s1) ELSE s1

\* App::scroll_details
scroll_details(s, delta) ==
    [s EXCEPT !.details_scroll =
        clamp(detail_scroll_offset(s) + delta, 0, max_detail_scroll(s))]

\* The left-button arm of App::handle_mouse.
left_click(s, mouse, quick) ==
    LET hovered_panel == panel_at(s, mouse) IN
    IF ~IsSome(hovered_panel) THEN s
    ELSE
    LET panel == Unwrap(hovered_panel)
        clicked_idx == list_row_from_point(s, panel, mouse)
        is_double == is_double_click(s, panel, clicked_idx, quick)
        s1 == [s EXCEPT !.last_mouse_click = Some([panel |-> panel, index |-> clicked_idx]),
                        !.focus = panel]
        s2 == IF IsSome(clicked_idx)
              THEN ensure_visible(set_panel_index(s1, panel, Unwrap(clicked_idx)), panel)
              ELSE s1
    IN  IF is_double /\ shows_detail(panel) THEN refresh_detail_for_focus(s2) ELSE s2

\* The wheel arms of App::handle_mouse.
wheel(s, mouse, delta) ==
    IF point_in_details(s, mouse) THEN scroll_details(s, delta)
    ELSE LET hovered_panel == panel_at(s, mouse) IN
         scroll_panel(s, IF IsSome(hovered_panel) THEN Unwrap(hovered_panel) ELSE s.focus,
                      delta)

\* App::handle_mouse
handle_mouse(s, mouse, quick) ==
    IF modal_open(s) THEN s
    ELSE CASE mouse.kind = "Down" -> left_click(s, mouse, quick)
           [] mouse.kind = "ScrollDown" -> wheel(s, mouse, 1)
           [] mouse.kind = "ScrollUp" -> wheel(s, mouse, -1)
           [] OTHER -> s

\* --------------------------------------------------- App: dispatch_action

selected_file_commit_count(s) == Cardinality(s.commit_file_selection)

\* The title of the commit-message input, as dispatch_action formats it.
commit_title(s, head) ==
    IF selected_file_commit_count(s) = 0 THEN head \o "all tracked changes)"
    ELSE head \o ToString(selected_file_commit_count(s)) \o " selected file"
         \o (IF selected_file_commit_count(s) = 1 THEN "" ELSE "s") \o ")"

\* App::dispatch_action
dispatch_action(s, action) ==
    CASE action = "Quit" -> [s EXCEPT !.should_quit = TRUE]
      [] action = "Help" -> append_log(s, "Keys: ...")
      [] action = "FocusNext" -> cycle_focus(s, TRUE)
      [] action = "FocusPrev" -> cycle_focus(s, FALSE)
      [] action = "MoveDown" -> move_selection(s, 1)
      [] action = "MoveUp" -> move_selection(s, -1)
      [] action = "RefreshSnapshot" -> refresh_snapshot(s, FALSE)
      [] action = "RefreshDetails" -> refresh_detail_for_focus(s)
      [] action = "OpenCustomCommands" -> open_command_palette(s)
      [] action = "ToggleFileForCommit" -> toggle_selected_file_for_commit(s)
      [] action = "ClearFileSelection" -> clear_file_selection(s)
      [] action = "Commit" ->
            open_input(s, "CommitMessage", commit_title(s, "Commit message ("))
      [] action = "CommitInteractive" ->
            open_input(s, "CommitMessageInteractive",
                       commit_title(s, "Interactive commit message (hg commit -i, "))
      [] action = "Bookmark" -> open_input(s, "BookmarkName", "New bookmark")
      [] action = "Shelve" ->
            IF s.snapshot.capabilities.has_shelve
            THEN open_input(s, "ShelveName", "Shelve name")
            ELSE [s EXCEPT !.status_line = "Shelve extension/command unavailable."]
      [] action = "Push" -> confirm_action(s, HgAction("Push"), "Push current changes?")
      [] action = "Pull" -> run_hg_action(s, HgAction("Pull"))
      [] action = "Incoming" -> run_hg_action(s, HgAction("Incoming"))
      [] action = "Outgoing" -> run_hg_action(s, HgAction("Outgoing"))
      [] action = "UpdateSelected" -> update_action_for_selection(s)
      [] action = "UnshelveSelected" -> unshelve_selected(s)
      [] action = "ResolveMark" -> mark_selected_conflict(s, TRUE)
      [] action = "ResolveUnmark" -> mark_selected_conflict(s, FALSE)
      [] action = "RebaseSelected" -> start_or_confirm_rebase(s)
      [] action = "RebaseContinue" -> continue_rebase(s)
      [] action = "RebaseAbort" -> abort_rebase(s)
      [] action = "HisteditSelected" -> maybe_histedit(s)
      [] action = "HardRefresh" -> refresh_detail_for_focus(refresh_snapshot(s, FALSE))

\* A session whose Esc cancels the pending rebase source before the modals
\* see the key.
handle_key_cancel_first(s, key) ==
    LET c == handle_confirmation_key(s, key)
        i == handle_input_key(s, key)
        p == handle_command_palette_key(s, key)
        e == cancel_pending_rebase_selection(s)
        action == action_for_event(key)
    IN  IF key.code = "Esc" /\ e[2] THEN e[1]
        ELSE IF c[2] THEN c[1]
        ELSE IF i[2] THEN i[1]
        ELSE IF p[2] THEN p[1]
        ELSE IF IsSome(action) THEN dispatch_action(s, Unwrap(action))
        ELSE s

\* App::handle_key
handle_key(s, key) ==
    LET c == handle_confirmation_key(s, key)
        i == handle_input_key(s, key)
        p == handle_command_palette_key(s, key)
        e == cancel_pending_rebase_selection(s)
        action == action_for_event(key)
    IN  IF c[2] THEN c[1]
        ELSE IF i[2] THEN i[1]
        ELSE IF p[2] THEN p[1]
        ELSE IF key.code = "Esc" /\ e[2] THEN e[1]
        ELSE IF IsSome(action) THEN dispatch_action(s, Unwrap(action))
        ELSE s

\* ------------------------------------------------------------ App: run

\* The head of App::run: the first refresh and the first detail fetch.
run_start(s) == refresh_detail_for_focus(refresh_snapshot(s, FALSE))

\* The Err arm of the head of the loop of App::run.
interactive_commit_failed(s) ==
    set_detail_text(
        append_log([s EXCEPT !.status_line = "Interactive commit failed."],
                   "Interactive commit error"),
        Detail("Interactive commit error"))

\* A loop that refreshes after an interactive commit that did not run.
run_interactive_commit_refreshing(s, outcome) ==
    refresh_snapshot(
        interactive_commit_failed([s EXCEPT !.interactive_commit_request = None]),
        FALSE)

\* App::run_interactive_commit and what App::run does with its result.
\* outcome: "completed" (exit 0), "exited" (non-zero exit), "suspend_failed",
\* "spawn_failed", "resume_failed" (an Err of run_interactive_commit).
run_interactive_commit(s, outcome) ==
    LET s0 == [s EXCEPT !.interactive_commit_request = None]
        request == Unwrap(s.interactive_commit_request)
        preview == IF request.files = {} THEN "hg commit -i -m <message>"
                   ELSE "hg commit -i -m <message> <"
                        \o ToString(Cardinality(request.files)) \o " files>"
        logged == append_log(s0, "Running interactively: " \o preview)
    IN  CASE outcome = "completed" ->
                refresh_snapshot(
                    [append_log([logged EXCEPT !.status_line = "Interactive commit completed."],
                                "OK: hg commit -i")
                        EXCEPT !.commit_file_selection = {}],
                    FALSE)
          [] outcome = "exited" ->
                refresh_snapshot(
                    append_log([logged EXCEPT !.status_line =
                                    "Interactive commit exited with error."],
                               "FAILED: interactive commit exit status"),
                    FALSE)
          [] outcome = "suspend_failed" -> interactive_commit_failed(s0)
          [] OTHER -> interactive_commit_failed(logged)

\* ------------------------------------------------------ key binding strings
\* A key binding as the configuration writes it is a sequence of symbols: "+",
\* " " and words, each word standing for the characters it is spelt with.

\* The position of the first `symbol` of raw at or after position `from`
\* (positions count from 0, as the byte offsets of the source do), or None.
find(raw, from, symbol) ==
    LET found == {i \in from..(Len(raw) - 1) : raw[i + 1] = symbol}
    IN  IF found = {} THEN None
        ELSE Some(CHOOSE i \in found : \A j \in found : i <= j)

\* raw[from..to], the positions from `from` up to but not including `to`.
slice(raw, from, to) == SubSeq(raw, from + 1, to)

\* The words of one character.
SingleChars ==
    {"q", "?", "j", "k", "d", ":", "v", "V", "c", "I", "b", "s", "p", "P", "i", "o",
     "u", "U", "m", "M", "r", "C", "A", "H", "l", "x", "a"}

\* str::to_ascii_lowercase, word by word.
lower_word(word) ==
    CASE word = "Ctrl" -> "ctrl"
      [] word = "BackTab" -> "backtab"
      [] word = "Escape" -> "escape"
      [] word = "A" -> "a"
      [] OTHER -> word

to_ascii_lowercase(text) == [i \in DOMAIN text |-> lower_word(text[i])]

\* str::split: the pieces of text between the occurrences of sep.
RECURSIVE split(_, _)
split(text, sep) ==
    LET at == find(text, 0, sep) IN
    IF ~IsSome(at) THEN <<text>>
    ELSE <<slice(text, 0, Unwrap(at))>>
         \o split(SubSeq(text, Unwrap(at) + 2, Len(text)), sep)

\* Vec::join
RECURSIVE join(_, _)
join(parts, sep) ==
    IF parts = <<>> THEN <<>>
    ELSE IF Len(parts) = 1 THEN Head(parts)
    ELSE Head(parts) \o <<sep>> \o join(Tail(parts), sep)

\* A canonical_key_string that names the super modifier "meta".
canonical_key_string_meta(key, ctrl, alt, shift, super_key) ==
    join((IF ctrl THEN <<(<<"ctrl">>)>> ELSE <<>>)
         \o (IF alt THEN <<(<<"alt">>)>> ELSE <<>>)
         \o (IF super_key THEN <<(<<"meta">>)>> ELSE <<>>)
         \o (IF shift THEN <<(<<"shift">>)>> ELSE <<>>)
         \o <<key>>, "+")

\* canonical_key_string
canonical_key_string(key, ctrl, alt, shift, super_key) ==
    join((IF ctrl THEN <<(<<"ctrl">>)>> ELSE <<>>)
         \o (IF alt THEN <<(<<"alt">>)>> ELSE <<>>)
         \o (IF super_key THEN <<(<<"cmd">>)>> ELSE <<>>)
         \o (IF shift THEN <<(<<"shift">>)>> ELSE <<>>)
         \o <<key>>, "+")

\* normalize_key_token: Some(key), or None for the Err.
normalize_key_token(token, shift) ==
    LET key == trim(token)
        named == to_ascii_lowercase(key)
    IN  IF Len(key) = 1 /\ key[1] \in SingleChars THEN Some(key)
        ELSE IF named = <<"tab">> THEN Some(<<"tab">>)
        ELSE IF named = <<"backtab">> THEN Some(<<"tab">>)
        ELSE IF named \in {<<"up">>, <<"down">>, <<"enter">>, <<"backspace">>}
        THEN Some(named)
        ELSE IF named \in {<<"esc">>, <<"escape">>} THEN Some(<<"esc">>)
        ELSE None

\* canonicalize_key_binding: Some(canonical string), or None for the Err.
canonicalize_key_binding(raw) ==
    LET text == trim(raw)
        pieces == split(text, "+")
        tokens == [i \in DOMAIN pieces |-> trim(pieces[i])]
        modifiers == [i \in 1..(Len(tokens) - 1) |-> to_ascii_lowercase(tokens[i])]
        has(names) == \E i \in DOMAIN modifiers : modifiers[i] \in names
        ctrl == has({<<"ctrl">>, <<"control">>})
        alt == has({<<"alt">>})
        shift == has({<<"shift">>})
        super_key == has({<<"cmd">>, <<"command">>, <<"super">>})
        key == normalize_key_token(tokens[Len(tokens)], shift)
    IN  IF text = <<>> THEN None
        ELSE IF \E i \in DOMAIN tokens : tokens[i] = <<>> THEN None
        ELSE IF \E i \in DOMAIN modifiers :
                   modifiers[i] \notin {<<"ctrl">>, <<"control">>, <<"alt">>, <<"shift">>,
                                        <<"cmd">>, <<"command">>, <<"super">>}
        THEN None
        ELSE IF ~IsSome(key) THEN None
        ELSE Some(canonical_key_string(Unwrap(key), ctrl, alt, shift, super_key))

\* ------------------------------------------------------------ ActionKeyMap

\* ActionId::all
ActionId_all ==
    <<"Quit", "Help", "FocusNext", "FocusPrev", "MoveDown",
      "MoveUp", "RefreshSnapshot", "RefreshDetails", "OpenCustomCommands", "ToggleFileForCommit",
      "ClearFileSelection", "Commit", "CommitInteractive", "Bookmark", "Shelve",
      "Push", "Pull", "Incoming", "Outgoing", "UpdateSelected",
      "UnshelveSelected", "ResolveMark", "ResolveUnmark", "RebaseSelected", "RebaseContinue",
      "RebaseAbort", "HisteditSelected", "HardRefresh">>

\* ActionId::from_str on a name without surrounding whitespace.
from_str(name) ==
    CASE name = "quit" -> Some("Quit")
      [] name = "help" -> Some("Help")
      [] name = "focus_next" -> Some("FocusNext")
      [] name = "focus_prev" -> Some("FocusPrev")
      [] name = "move_down" -> Some("MoveDown")
      [] name = "move_up" -> Some("MoveUp")
      [] name = "refresh_snapshot" -> Some("RefreshSnapshot")
      [] name = "refresh_details" -> Some("RefreshDetails")
      [] name = "open_custom_commands" -> Some("OpenCustomCommands")
      [] name = "toggle_file_for_commit" -> Some("ToggleFileForCommit")
      [] name = "clear_file_selection" -> Some("ClearFileSelection")
      [] name = "commit" -> Some("Commit")
      [] name = "commit_interactive" -> Some("CommitInteractive")
      [] name = "bookmark" -> Some("Bookmark")
      [] name = "shelve" -> Some("Shelve")
      [] name = "push" -> Some("Push")
      [] name = "pull" -> Some("Pull")
      [] name = "incoming" -> Some("Incoming")
      [] name = "outgoing" -> Some("Outgoing")
      [] name = "update_selected" -> Some("UpdateSelected")
      [] name = "unshelve_selected" -> Some("UnshelveSelected")
      [] name = "resolve_mark" -> Some("ResolveMark")
      [] name = "resolve_unmark" -> Some("ResolveUnmark")
      [] name = "rebase_selected" -> Some("RebaseSelected")
      [] name = "rebase_continue" -> Some("RebaseContinue")
      [] name = "rebase_abort" -> Some("RebaseAbort")
      [] name = "histedit_selected" -> Some("HisteditSelected")
      [] name = "hard_refresh" -> Some("HardRefresh")
      [] OTHER -> None

\* The symbols a key of DEFAULT_BINDINGS is written with.
symbols(key) ==
    CASE key = "shift+tab" -> <<"shift", "+", "tab">>
      [] key = "cmd+r" -> <<"cmd", "+", "r">>
      [] key = "ctrl+l" -> <<"ctrl", "+", "l">>
      [] OTHER -> <<key>>

\* DEFAULT_BINDINGS with every key canonicalized, as the first loop of
\* from_overrides reads it.
canonical_defaults ==
    <<>> \o [i \in DOMAIN DEFAULT_BINDINGS |->
                <<DEFAULT_BINDINGS[i][1],
                  to_string(Unwrap(canonicalize_key_binding(symbols(DEFAULT_BINDINGS[i][2]))))>>]

\* The keys the first loop of from_overrides pushes for `action`.
default_keys(action) ==
    LET bound == SelectSeq(canonical_defaults, LAMBDA binding : binding[1] = action)
    IN  [i \in DOMAIN bound |-> bound[i][2]]

\* action_to_keys after the first loop of from_overrides.
default_action_to_keys == [action \in Range(ActionId_all) |-> default_keys(action)]

\* The second loop of from_overrides over the entries of overrides in the order
\* names: the issues and the parsed overrides.
RECURSIVE parse_overrides(_, _)
parse_overrides(overrides, names) ==
    IF names = <<>> THEN [issues |-> <<>>, parsed |-> <<>>]
    ELSE LET action_name == Head(names)
             rest == parse_overrides(overrides, Tail(names))
             action == from_str(action_name)
             canonical == canonicalize_key_binding(overrides[action_name])
         IN  IF ~IsSome(action)
             THEN [rest EXCEPT !.issues = <<"unknown keybinding action '" \o action_name
                                             \o "'">> \o @]
             ELSE IF ~IsSome(canonical)
             THEN [rest EXCEPT !.issues = <<"invalid keybinding for '" \o action_name
                                             \o "'">> \o @]
             ELSE [rest EXCEPT !.parsed = <<(<<Unwrap(action), to_string(Unwrap(canonical))>>)>>
                                          \o @]

\* for (action, key) in parsed_overrides { action_to_keys.insert(action, vec![key]) }
RECURSIVE insert_overrides(_, _)
insert_overrides(action_to_keys, parsed) ==
    IF parsed = <<>> THEN action_to_keys
    ELSE insert_overrides([action_to_keys EXCEPT ![Head(parsed)[1]] = <<Head(parsed)[2]>>],
                          Tail(parsed))

\* The map whose <<key, value>> entries are `entries`, as a function.
as_function(entries) ==
    [key \in {entry[1] : entry \in entries} |->
        (CHOOSE entry \in entries : entry[1] = key)[2]]

\* The <<action, key>> pairs the third loop of from_overrides visits, in the
\* order in which it visits them: the actions in the order `actions`, the keys
\* of each in their order.
RECURSIVE visited(_, _)
visited(action_to_keys, actions) ==
    IF actions = <<>> THEN <<>>
    ELSE [i \in DOMAIN action_to_keys[Head(actions)] |->
             <<Head(actions), action_to_keys[Head(actions)][i]>>]
         \o visited(action_to_keys, Tail(actions))

\* A set of seen keys that never holds one.
seen_before_never(pairs, j) == FALSE

\* !seen.insert(key) at the j-th pair visited: the key was visited before.
seen_before(pairs, j) == \E i \in 1..(j - 1) : pairs[i][2] = pairs[j][2]

\* The issues of the third loop: one for every key already seen.
RECURSIVE duplicate_issues(_, _)
duplicate_issues(pairs, j) ==
    IF j > Len(pairs) THEN <<>>
    ELSE (IF seen_before(pairs, j) THEN <<"duplicate keybinding '" \o pairs[j][2] \o "'">>
          ELSE <<>>)
         \o duplicate_issues(pairs, j + 1)

\* The end of from_overrides: the Err with the issues, or the Ok with the two
\* maps, event_to_action holding the keys that were not seen before.
key_map(issues, pairs, primary_for_action) ==
    IF issues # <<>> THEN [ok |-> FALSE, issues |-> issues]
    ELSE [ok |-> TRUE,
          event_to_action |->
              as_function({<<pairs[j][2], pairs[j][1]>> :
                              j \in {i \in DOMAIN pairs : ~seen_before(pairs, i)}}),
          primary_for_action |-> as_function(primary_for_action)]

\* The third loop of from_overrides over the <<action, key>> pairs `pairs`,
\* after the issues of the second loop.
bind_keys(issues, pairs, action_to_keys, actions) ==
    key_map(issues \o duplicate_issues(pairs, 1), pairs,
            {<<actions[i], action_to_keys[actions[i]][1]>> : i \in DOMAIN actions})

\* from_overrides once the overrides are parsed. No action is left without a
\* key, every action having a built-in one.
bind_actions(issues, action_to_keys, actions) ==
    bind_keys(issues, visited(action_to_keys, actions), action_to_keys, actions)

\* from_overrides after its second loop has returned `first`.
bind_overrides(first, actions) ==
    bind_actions(first.issues, insert_overrides(default_action_to_keys, first.parsed),
                 actions)

\* ActionKeyMap::from_overrides, the two HashMaps being iterated in the orders
\* `names` (overrides) and `actions` (action_to_keys).
from_overrides(overrides, names, actions) ==
    bind_overrides(parse_overrides(overrides, names), actions)

RECURSIVE keybinding_warnings(_)
\* for issue in keymap_issues { app.append_log("Keybinding warning: {issue}") }
keybinding_warnings(issues) ==
    IF issues = <<>> THEN <<>>
    ELSE <<"Keybinding warning: " \o Head(issues)>> \o keybinding_warnings(Tail(issues))

\* The match on `built`, the result of from_overrides, in
\* App::new_with_startup_issues: the keymap and the warnings logged.
keymap_or_default(built, actions) ==
    IF built.ok THEN [keymap |-> built, log_lines |-> <<>>]
    ELSE [keymap |-> from_overrides(<<>>, <<>>, actions),
          log_lines |-> keybinding_warnings(built.issues)]

\* The keymap of App::new_with_startup_issues.
new_keymap(overrides, names, actions) ==
    keymap_or_default(from_overrides(overrides, names, actions), actions)

\* ------------------------------------------------ custom command templates
\* A raw string of a custom command is a sequence of symbols: "{", "}", " ",
\* "/" and words, each word standing for the letters it is spelt with.

SUPPORTED_TEMPLATE_VARS == {"repo_root", "branch", "file", "rev", "node"}

\* is_template_var_name: a letter or '_' followed by letters, digits and '_'.
is_template_var_name(raw) ==
    raw # <<>> /\ \A i \in DOMAIN raw : raw[i] \notin {"{", "}", " ", "/"}

\* The loop of template_vars from the offset idx, with `seen` the names
\* already returned.
RECURSIVE scan_template_vars(_, _, _)
scan_template_vars(raw, idx, seen) ==
    IF idx >= Len(raw) THEN <<>>
    ELSE LET start == find(raw, idx, "{") IN
         IF ~IsSome(start) \/ Unwrap(start) + 1 >= Len(raw) THEN <<>>
         ELSE LET end == find(raw, Unwrap(start) + 1, "}") IN
              IF ~IsSome(end) THEN <<>>
              ELSE LET candidate == slice(raw, Unwrap(start) + 1, Unwrap(end))
                       idx1 == Unwrap(end) + 1
                   IN  IF is_template_var_name(candidate) /\ candidate \notin seen
                       THEN <<candidate>>
                            \o scan_template_vars(raw, idx1, seen \cup {candidate})
                       ELSE scan_template_vars(raw, idx1, seen)

\* template_vars
template_vars(raw) == scan_template_vars(raw, 0, {})

\* unresolved_template_vars: `values` (vars in the source) maps the bound names
\* to their values.
unresolved_template_vars(raw, values) ==
    SelectSeq(template_vars(raw), LAMBDA name : name \notin DOMAIN values)

\* str::replace: every occurrence of `pattern` in raw, from the left and
\* without overlap, becomes `value`.
RECURSIVE replace(_, _, _)
replace(raw, pattern, value) ==
    IF Len(raw) < Len(pattern) THEN raw
    ELSE IF SubSeq(raw, 1, Len(pattern)) = pattern
    THEN value \o replace(SubSeq(raw, Len(pattern) + 1, Len(raw)), pattern, value)
    ELSE <<Head(raw)>> \o replace(Tail(raw), pattern, value)

\* render_template over the names `names` of the map (the values of the
\* session hold no brace, so the order of the HashMap's iteration makes no
\* difference).
RECURSIVE render_names(_, _, _)
render_names(raw, values, names) ==
    IF names = {} THEN raw
    ELSE LET name == CHOOSE n \in names : TRUE
         IN  render_names(replace(raw, <<"{">> \o name \o <<"}">>, values[name]),
                          values, names \ {name})

\* render_template
render_template(raw, values) == render_names(raw, values, DOMAIN values)

\* a < b for two names: the order of str, word by word ("file" < "rev", and a
\* name comes before the names it is a prefix of).
RECURSIVE name_less(_, _)
name_less(a, b) ==
    IF b = <<>> THEN FALSE
    ELSE IF a = <<>> THEN TRUE
    ELSE IF Head(a) = Head(b) THEN name_less(Tail(a), Tail(b))
    ELSE Head(a) = "file"

\* Vec::sort of a list of distinct names.
RECURSIVE sorted(_)
sorted(names) ==
    IF names = <<>> THEN <<>>
    ELSE LET least == CHOOSE i \in DOMAIN names :
                          \A j \in DOMAIN names : j # i => name_less(names[i], names[j])
         IN  <<names[least]>> \o sorted(RemoveAt(names, least))

\* The loop of prepare_custom_run_action that collects the unresolved names of
\* the raw strings `raws` after those of `unresolved`, each once.
RECURSIVE collect_unresolved(_, _, _)
collect_unresolved(raws, values, unresolved) ==
    IF raws = <<>> THEN unresolved
    ELSE collect_unresolved(
             Tail(raws), values,
             unresolved \o SelectSeq(unresolved_template_vars(Head(raws), values),
                                      LAMBDA name : name \notin Range(unresolved)))

\* prepare_custom_run_action on the raw strings of a command (the program, the
\* base arguments, the extra arguments and the environment values, in that
\* order) once custom_template_vars has returned `vars`: the Err with the
\* unresolved names, or the Ok with the rendered strings.
prepare_invocation(raws, values) ==
    LET unresolved == collect_unresolved(Tail(raws), values,
                                         unresolved_template_vars(Head(raws), values))
    IN  IF unresolved # <<>> THEN [ok |-> FALSE, unresolved |-> sorted(unresolved),
                                   invocation |-> <<>>]
        ELSE IF trim(render_template(Head(raws), values)) = <<>>
        THEN [ok |-> FALSE, unresolved |-> <<>>, invocation |-> <<>>]
        ELSE [ok |-> TRUE, unresolved |-> <<>>,
              invocation |-> [i \in DOMAIN raws |-> render_template(raws[i], values)]]

\* ------------------------------------------------ custom command tokenizer
\* A command string is a sequence of characters: "'", "\"", "\\", " " (any
\* whitespace) and other characters.

\* Result<(String, Vec<String>), String> of parse_command_parts.
Parsed(program, args) == [ok |-> TRUE, program |-> program, args |-> args]

ParseError(message) == [ok |-> FALSE, message |-> message]

\* if !current.is_empty() { parts.push(current) }
push_part(parts, current) == IF current # <<>> THEN Append(parts, current) ELSE parts

\* The position of the first character of raw after position i that is not
\* whitespace (the inner loop on chars.peek()), Len(raw) + 1 if there is none.
RECURSIVE skip_whitespace(_, _)
skip_whitespace(raw, i) ==
    IF i <= Len(raw) /\ raw[i] = " " THEN skip_whitespace(raw, i + 1) ELSE i

\* The loop of parse_command_parts from the character at position i (from 1),
\* and what follows it. quote_mode is "None", "Single" or "Double".
RECURSIVE parse_chars(_, _, _, _, _)
parse_chars(raw, i, parts, current, quote_mode) ==
    IF i > Len(raw)
    THEN IF quote_mode # "None" THEN ParseError("custom command has unmatched quote")
         ELSE LET all == push_part(parts, current)
              IN  IF all = <<>> THEN ParseError("custom command has empty executable")
                  ELSE Parsed(Head(all), Tail(all))
    ELSE LET ch == raw[i] IN
         CASE quote_mode = "Single" ->
                IF ch = "'" THEN parse_chars(raw, i + 1, parts, current, "None")
                ELSE parse_chars(raw, i + 1, parts, Append(current, ch), "Single")
           [] quote_mode = "Double" ->
                IF ch = "\"" THEN parse_chars(raw, i + 1, parts, current, "None")
                ELSE IF ch = "\\"
                THEN IF i + 1 > Len(raw)
                     THEN ParseError("custom command has trailing escape")
                     ELSE parse_chars(raw, i + 2, parts, Append(current, raw[i + 1]),
                                      "Double")
                ELSE parse_chars(raw, i + 1, parts, Append(current, ch), "Double")
           [] OTHER ->
                IF ch = "'" THEN parse_chars(raw, i + 1, parts, current, "Single")
                ELSE IF ch = "\"" THEN parse_chars(raw, i + 1, parts, current, "Double")
                ELSE IF ch = "\\"
                THEN IF i + 1 > Len(raw)
                     THEN ParseError("custom command has trailing escape")
                     ELSE parse_chars(raw, i + 2, parts, Append(current, raw[i + 1]),
                                      "None")
                ELSE IF ch = " "
                THEN parse_chars(raw, skip_whitespace(raw, i + 1),
                                 push_part(parts, current), <<>>, "None")
                ELSE parse_chars(raw, i + 1, parts, Append(current, ch), "None")

\* parse_command_parts
parse_command_parts(raw) == parse_chars(raw, 1, <<>>, <<>>, "None")

\* ---------------------------------------------------------- hg: graph merge

\* A Revision of the log: its number, its node and its graph prefix (the other
\* fields travel with the node).
Revision(rev, node, graph_prefix) ==
    [rev |-> rev, node |-> node, graph_prefix |-> graph_prefix]

ParsedGraphRow(rev, graph_prefix) == [rev |-> rev, graph_prefix |-> graph_prefix]

\* original_order: the numbers of the revisions, in their order.
original_order(revisions) == [i \in DOMAIN revisions |-> revisions[i].rev]

\* revisions_by_rev: HashMap::insert of every revision under its number, so
\* that a later revision replaces an earlier one of the same number.
revisions_by_rev(revisions) ==
    [n \in Range(original_order(revisions)) |->
        revisions[CHOOSE i \in DOMAIN revisions :
                     /\ revisions[i].rev = n
                     /\ \A j \in DOMAIN revisions : revisions[j].rev = n => j <= i]]

\* A matched revision that keeps the prefix it had.
with_graph_prefix_kept(revision, row) == revision

\* revision.graph_prefix = Some(row.graph_prefix.clone())
with_graph_prefix(revision, row) ==
    [revision EXCEPT !.graph_prefix = Some(row.graph_prefix)]

\* The loop over graph_rows: `seen` is seen_graph_revs, `remaining` the keys
\* left in revisions_by_rev.  The result is what was pushed and the keys left.
RECURSIVE push_graph_rows(_, _, _, _)
push_graph_rows(graph_rows, seen, remaining, by_rev) ==
    IF graph_rows = <<>> THEN [merged |-> <<>>, remaining |-> remaining]
    ELSE LET row == Head(graph_rows)
         IN  IF row.rev \in seen
             THEN push_graph_rows(Tail(graph_rows), seen, remaining, by_rev)
             ELSE IF row.rev \in remaining
             THEN LET rest == push_graph_rows(Tail(graph_rows), seen \cup {row.rev},
                                              remaining \ {row.rev}, by_rev)
                  IN  [merged |-> <<with_graph_prefix(by_rev[row.rev], row)>> \o rest.merged,
                       remaining |-> rest.remaining]
             ELSE push_graph_rows(Tail(graph_rows), seen \cup {row.rev}, remaining, by_rev)

\* The loop over original_order: every revision still in revisions_by_rev is
\* removed from it and pushed.
RECURSIVE push_original_order(_, _, _)
push_original_order(order, remaining, by_rev) ==
    IF order = <<>> THEN <<>>
    ELSE IF Head(order) \in remaining
    THEN <<by_rev[Head(order)]>>
         \o push_original_order(Tail(order), remaining \ {Head(order)}, by_rev)
    ELSE push_original_order(Tail(order), remaining, by_rev)

\* A merge that returns the matched revisions only.
merge_log_graph_matched_only(revisions, graph_rows) ==
    IF graph_rows = <<>> THEN revisions
    ELSE push_graph_rows(graph_rows, {}, DOMAIN revisions_by_rev(revisions),
                         revisions_by_rev(revisions)).merged

\* merge_log_graph
merge_log_graph(revisions, graph_rows) ==
    IF graph_rows = <<>> THEN revisions
    ELSE LET by_rev == revisions_by_rev(revisions)
             matched == push_graph_rows(graph_rows, {}, DOMAIN by_rev, by_rev)
         IN  matched.merged
             \o push_original_order(original_order(revisions), matched.remaining, by_rev)

\* --------------------------------------------------------------- hg client

\* HgCapabilities: the fields a refresh reads (version, has_rebase and
\* has_histedit are carried into the snapshot untouched).
HgCapabilities(has_shelve, json_status, json_log, json_bookmarks) ==
    [has_shelve |-> has_shelve, supports_json_status |-> json_status,
     supports_json_log |-> json_log, supports_json_bookmarks |-> json_bookmarks]

\* The hg commands a refresh runs.
Queries ==
    {"root", "branch", "status -Tjson", "status", "bookmarks -Tjson", "bookmarks",
     "resolve -l", "shelve --list", "log -Tjson", "log -T", "log -G"}

\* What run_hg returns for a command, and what the command's parser makes of
\* the output: "ok" (exit 0, the output parses), "unparsable" (exit 0, the
\* output does not parse), "nonzero" (exit status not 0), "error" (the Err of
\* a command that could not be spawned).
Answers == {"ok", "unparsable", "nonzero", "error"}

\* out.success of an Ok(out)
success(answer) == answer \in {"ok", "unparsable"}

\* One of the client's refreshes: where it is (pc), its options, the
\* capabilities its detection returned, whether that detection ran the
\* probes, what hg answered to its commands, the commands it has run and what
\* it returned.
Refresh_idle ==
    [pc |-> "idle", options |-> None, caps |-> None, probed |-> FALSE,
     answers |-> None, issued |-> <<>>, result |-> None]

\* CliHgClient::new: nothing is cached, no refresh runs.  `stored` keeps every
\* value written to capabilities_cache.
CliHgClient_new ==
    [capabilities_cache |-> None, stored |-> <<>>,
     refreshes |-> [i \in 1..MaxRefreshes |-> Refresh_idle]]

\* What one feature's queries come to: the query whose output was parsed, or
\* the failure, and the fallback query run on the way.
Settled(from, fallback) == [ok |-> TRUE, from |-> from, issued |-> fallback]
Failed(fallback) == [ok |-> FALSE, from |-> "none", issued |-> fallback]

\* The legacy parser takes the output (parse_status_plain and
\* parse_bookmarks_plain take any; parse_log_plain_template can fail).
plain_parses(answer, fallible) == answer = "ok" \/ ~fallible

\* A structured query that is never retried as a legacy query.
fallback_never(legacy, answers, fallible) == Failed(<<>>)

\* self.run_hg(legacy).await?, then its exit status, then the legacy parser.
fallback(legacy, answers, fallible) ==
    IF success(answers[legacy]) /\ plain_parses(answers[legacy], fallible)
    THEN Settled(legacy, <<legacy>>)
    ELSE Failed(<<legacy>>)

\* The structured-first block of refresh_snapshot, written three times in the
\* source (status, revisions, bookmarks): `primary` is the query of the join,
\* `used_json` whether it was the structured one.
structured_first(primary, used_json, legacy, answers, fallible) ==
    IF answers[primary] = "error" THEN Failed(<<>>)
    ELSE IF used_json
    THEN IF answers[primary] = "ok" THEN Settled(primary, <<>>)
         ELSE fallback(legacy, answers, fallible)
    ELSE IF success(answers[primary]) /\ plain_parses(answers[primary], fallible)
         THEN Settled(primary, <<>>)
         ELSE Failed(<<>>)

\* The revisions and the graph rows the parsers return for an output that
\* parses; the node of a revision names the query it was parsed from.
ParsedLog(query) == <<Revision(8, query, None), Revision(7, query, None)>>
ParsedGraph == <<ParsedGraphRow(8, "@"), ParsedGraphRow(7, "o")>>

\* The graph overlay of refresh_snapshot.
overlay_graph(revisions, answers) ==
    LET graph_rows == IF answers["log -G"] = "ok" THEN ParsedGraph ELSE <<>>
    IN  IF graph_rows # <<>> THEN merge_log_graph(revisions, graph_rows) ELSE revisions

\* What refresh_snapshot returns: the commands run, the feature whose failure
\* aborted the refresh ("none" when it returned Ok) and, of a snapshot, the
\* query each list was parsed from and the revisions.
Aborted(issued, feature) ==
    [issued |-> issued, failed |-> feature, files |-> "none", bookmarks |-> "none",
     revisions |-> <<>>]

\* CliHgClient::refresh_snapshot once detect_capabilities has returned `caps`.
CliHgClient_refresh_snapshot(caps, options, answers) ==
    IF ~success(answers["root"]) THEN Aborted(<<"root">>, "root")
    ELSE
    LET status_query == IF caps.supports_json_status THEN "status -Tjson" ELSE "status"
        bookmarks_query == IF caps.supports_json_bookmarks THEN "bookmarks -Tjson"
                           ELSE "bookmarks"
        log_query == IF caps.supports_json_log THEN "log -Tjson" ELSE "log -T"
        joined == <<"root", "branch", status_query, bookmarks_query, "resolve -l">>
                  \o (IF caps.has_shelve THEN <<"shelve --list">> ELSE <<>>)
                  \o (IF options.include_revisions THEN <<log_query, "log -G">> ELSE <<>>)
        files == structured_first(status_query, caps.supports_json_status, "status",
                                  answers, FALSE)
        revisions == IF options.include_revisions
                     THEN structured_first(log_query, caps.supports_json_log, "log -T",
                                           answers, TRUE)
                     ELSE Settled("none", <<>>)
        bookmarks == structured_first(bookmarks_query, caps.supports_json_bookmarks,
                                      "bookmarks", answers, FALSE)
        upto_files == joined \o files.issued
        upto_revisions == upto_files \o revisions.issued
        upto_bookmarks == upto_revisions \o bookmarks.issued
    IN  IF ~files.ok THEN Aborted(upto_files, "status")
        ELSE IF ~revisions.ok THEN Aborted(upto_revisions, "revisions")
        ELSE IF ~bookmarks.ok THEN Aborted(upto_bookmarks, "bookmarks")
        ELSE IF caps.has_shelve /\ ~success(answers["shelve --list"])
        THEN Aborted(upto_bookmarks, "shelves")
        ELSE IF ~success(answers["resolve -l"]) THEN Aborted(upto_bookmarks, "conflicts")
        ELSE [issued |-> upto_bookmarks, failed |-> "none", files |-> files.from,
              bookmarks |-> bookmarks.from,
              revisions |-> IF options.include_revisions
                            THEN overlay_graph(ParsedLog(revisions.from), answers)
                            ELSE <<>>]

\* The refresh i of the client h, changed to r.
with_refresh(h, i, r) == [h EXCEPT !.refreshes[i] = r]

\* detect_capabilities up to its first return: the cached value when there
\* is one; otherwise the probes are to be run.
detect_cached(h, i, options) ==
    IF IsSome(h.capabilities_cache)
    THEN with_refresh(h, i, [Refresh_idle EXCEPT !.pc = "detected", !.options = Some(options),
                                                 !.caps = h.capabilities_cache])
    ELSE with_refresh(h, i, [Refresh_idle EXCEPT !.pc = "probing", !.options = Some(options)])

\* detect_capabilities: the probes have run and answered `detected`.
detect_probed(h, i, detected) ==
    with_refresh(h, i, [h.refreshes[i] EXCEPT !.pc = "storing", !.caps = Some(detected),
                                              !.probed = TRUE])

\* *self.capabilities_cache.lock().await = Some(detected.clone())
store_detected(h, detected) ==
    [h EXCEPT !.capabilities_cache = Some(detected), !.stored = Append(@, detected)]

\* detect_capabilities from the store to its return.
detect_stored(h, i) ==
    with_refresh(store_detected(h, Unwrap(h.refreshes[i].caps)), i,
                 [h.refreshes[i] EXCEPT !.pc = "detected"])

\* refresh_snapshot from the return of detect_capabilities to its own.
assembled(h, i, answers) ==
    LET r == h.refreshes[i]
        returned == CliHgClient_refresh_snapshot(Unwrap(r.caps), Unwrap(r.options), answers)
    IN  with_refresh(h, i, [r EXCEPT !.pc = "done", !.answers = Some(answers),
                                     !.issued = returned.issued,
                                     !.result = Some(returned)])

\* ---------------------------------------------------------- initial state

\* The custom_commands tables of the configurations considered.
Configs ==
    {<<>>,
     <<CustomCommand("lint", "File", {"file"}, TRUE, FALSE),
       CustomCommand("strip", "Revision", {"rev"}, FALSE, TRUE)>>}

RECURSIVE startup_log(_)
\* The log lines App::new_with_startup_issues writes for the custom commands.
startup_log(commands) ==
    IF commands = <<>> THEN <<>>
    ELSE <<"Loaded custom command: " \o Head(commands).id>> \o startup_log(Tail(commands))

\* App::new_with_startup_issues (no configuration or keymap issues)
InitSession ==
    /\ custom_commands \in Configs
    /\ focus = "Files"
    /\ snapshot = RepoSnapshot_default
    /\ detail_text = Detail("Loading...")
    /\ details_scroll = 0
    /\ log_lines = IF custom_commands = <<>> THEN <<"No custom commands configured.">>
                   ELSE SubSeq(startup_log(custom_commands),
                               Max(1, Len(custom_commands) - MaxLogLines + 1),
                               Len(custom_commands))
    /\ status_line = "Theme: auto | key overrides: 0 | q to quit."
    /\ input = None
    /\ confirmation = None
    /\ command_palette = None
    /\ commit_file_selection = {}
    /\ interactive_commit_request = None
    /\ should_quit = FALSE
    /\ files_idx = 0 /\ rev_idx = 0 /\ bookmarks_idx = 0
    /\ shelves_idx = 0 /\ conflicts_idx = 0 /\ log_idx = 0
    /\ files_offset = 0 /\ rev_offset = 0 /\ bookmarks_offset = 0
    /\ shelves_offset = 0 /\ conflicts_offset = 0
    /\ last_refresh = REFRESH_THROTTLE_SECS
    /\ detail_request_id = 0
    /\ pending_rebase_source = None
    /\ commit_graph_warning_emitted = FALSE
    /\ rebase_unavailable_notice_emitted = FALSE
    /\ last_rebase_hint = None
    /\ ui_rects = UiRects_default
    /\ last_mouse_click = None
    /\ tasks = <<>>
    /\ last_event = [kind |-> "New"]

\* No function is under evaluation.
NoCall == [fn |-> "none"]

\* The session as constructed, with a client that has run nothing.
Init == InitSession /\ hg = CliHgClient_new /\ call = NoCall

\* A session whose configuration has no custom commands.
InitPlain == Init /\ custom_commands = <<>>

\* The same session with a function about to be evaluated on `calls`.
InitCall(calls) ==
    /\ InitSession /\ custom_commands = <<>>
    /\ hg = CliHgClient_new
    /\ call \in calls

\* ------------------------------------------------------ the event loop

\* App::run has issued its first refresh and entered the loop.
started == last_event.kind # "New"

\* The select! of App::run is reached: the loop runs, no quit was asked for
\* and no interactive commit is waiting at the head of the loop.
awaiting == started /\ ~should_quit /\ ~IsSome(interactive_commit_request)

\* The background units of kind `kind` among `units`.
InFlight(units, kind) == Cardinality({i \in 1..Len(units) : units[i].kind = kind})

\* The session s keeps the units in flight and the detail requests of the run
\* within the bounds: every command in flight is followed by a refresh, and
\* every refresh in flight may issue one more detail request.
within_bounds(s) ==
    /\ Len(s.tasks) <= MaxTasks
    /\ s.detail_request_id + InFlight(s.tasks, "action") + InFlight(s.tasks, "snapshot")
          <= MaxDetailRequests

\* The session once the unit at position i of `tasks` has sent its event.
received(i) == [Self EXCEPT !.tasks = RemoveAt(@, i)]

\* terminal.draw at the head of the loop, on a frame of `height` lines per
\* rectangle.
draw(s, height) == [s EXCEPT !.ui_rects = compute_ui_rects(height)]

\* App::run up to the loop's first select!.
Startup ==
    /\ ~started
    /\ Becomes(draw(run_start(Self), PanelRows + 2))
    /\ last_event' = [kind |-> "Startup"]

\* CEvent::Key
KeyPress(keys) ==
    /\ awaiting
    /\ \E key \in keys :
        /\ IsSome(input) /\ key.code = "Char" => Len(Unwrap(input).value) < MaxInputLen
        /\ within_bounds(handle_key(Self, key))
        /\ Becomes(handle_key(Self, key))
        /\ last_event' = [kind |-> "Key", key |-> key]

\* The positions a pointer can report in the session s: any line of any
\* rectangle, and the header.
Positions(s) ==
    {<<panel, y>> : panel \in Range(FocusPanel_all), y \in 0..(s.ui_rects.panel - 1)}
    \cup {<<"Details", y>> : y \in 0..(s.ui_rects.details - 1)}
    \cup {<<"None", 0>>}

\* Every rectangle a pointer can be over.
Regions == Range(FocusPanel_all) \cup {"Details", "None"}

\* CEvent::Mouse
Mouse(kinds, regions) ==
    /\ awaiting
    /\ \E kind \in kinds, at \in Positions(Self), quick \in BOOLEAN :
        /\ at[1] \in regions
        /\ quick \/ (kind = "Down" /\ IsSome(last_mouse_click))
        /\ \E handled \in {handle_mouse(Self, MouseEvent(kind, at[1], at[2]), quick)} :
              /\ within_bounds(handled)
              /\ Becomes(handled)
        /\ last_event' = [kind |-> "Mouse", mouse |-> MouseEvent(kind, at[1], at[2]),
                          quick |-> quick]

\* CEvent::Resize: handled by the `_ => {}` arm, after which the draw at the
\* head of the loop lays the rectangles out on the new frame.
Resize(heights) ==
    /\ awaiting
    /\ \E height \in heights :
        /\ compute_ui_rects(height) # ui_rects
        /\ Becomes(draw(Self, height))
        /\ last_event' = [kind |-> "Resize", height |-> height]

\* tick.tick(): `passed` says whether another second went by since the last tick.
Tick ==
    /\ awaiting
    /\ \E passed \in {0, 1} :
        LET now == [Self EXCEPT !.last_refresh = Min(@ + passed, REFRESH_THROTTLE_SECS)]
        IN  /\ within_bounds(periodic_refresh(now))
            /\ Becomes(periodic_refresh(now))
            /\ last_event' = [kind |-> "Tick", passed |-> passed]

\* event_rx.recv() of a SnapshotLoaded: the assembler returned `result`.
SnapshotDone(results) ==
    /\ awaiting
    /\ \E i \in 1..Len(tasks), result \in results :
        /\ tasks[i].kind = "snapshot"
        /\ Becomes(SnapshotLoaded(received(i), tasks[i].preserve_details,
                                  tasks[i].include_revisions, result))
        /\ last_event' = [kind |-> "SnapshotLoaded",
                          preserve_details |-> tasks[i].preserve_details,
                          include_revisions |-> tasks[i].include_revisions,
                          result |-> result]

\* event_rx.recv() of a DetailLoaded
DetailDone(results) ==
    /\ awaiting
    /\ \E i \in 1..Len(tasks), result \in results :
        /\ tasks[i].kind = "detail"
        /\ Becomes(DetailLoaded(received(i), tasks[i].request_id, result))
        /\ last_event' = [kind |-> "DetailLoaded", request_id |-> tasks[i].request_id,
                          result |-> result]

\* event_rx.recv() of an ActionFinished
ActionDone(results) ==
    /\ awaiting
    /\ \E i \in 1..Len(tasks), result \in results :
        /\ tasks[i].kind = "action"
        /\ Becomes(ActionFinished(received(i), tasks[i], result))
        /\ last_event' = [kind |-> "ActionFinished", action |-> tasks[i].action,
                          action_kind |-> tasks[i].action_kind,
                          action_preview |-> tasks[i].action_preview,
                          result |-> result]

\* The head of the loop of App::run with an interactive commit requested.
InteractiveCommit ==
    /\ started /\ ~should_quit
    /\ IsSome(interactive_commit_request)
    /\ \E outcome \in {"completed", "exited", "suspend_failed", "spawn_failed",
                       "resume_failed"} :
        /\ Becomes(run_interactive_commit(Self, outcome))
        /\ last_event' = [kind |-> "InteractiveCommit", outcome |-> outcome]

\* What a background unit can report.
DetailResults ==
    {[ok |-> TRUE, text |-> "diff"], [ok |-> TRUE, text |-> ""], [ok |-> FALSE, text |-> ""]}

ActionResults ==
    {[outcome |-> o, output |-> b] : o \in {"success", "failure", "error"}, b \in BOOLEAN}

\* ------------------------------------------------------------- scenarios
\* Each specification below runs the same session on one family of events:
\* its next-state relation is a part of Next, with the keys and the results
\* of the background units drawn from the sets it names.

\* A working copy with two changed files and two revisions, rebase enabled.
Plain ==
    MkSnapshot(<<"a.txt", "b.txt">>, <<Rev(2, TRUE), Rev(1, TRUE)>>, <<"main">>,
               <<"wip">>, <<>>, FALSE, Caps(TRUE, TRUE, TRUE))

Loaded(snap) == [ok |-> TRUE, snapshot |-> snap]
LoadFailed == [ok |-> FALSE, snapshot |-> RepoSnapshot_default]

\* Detail fetches: the keys that issue them and a repository that holds still.
DetailKeys == {Char("d"), Char("j"), Named("Tab")}
DetailSnapshots == {Loaded(Plain), LoadFailed}

NextDetail ==
    \/ Startup
    \/ KeyPress(DetailKeys)
    \/ SnapshotDone(DetailSnapshots)
    \/ DetailDone(DetailResults)

SpecDetail == InitPlain /\ [][NextDetail]_vars

\* Refreshes: the timer, the manual refresh key and a repository that moves.
\* Moved has a new head; Light is what the assembler returns when it is asked
\* to leave the revisions out.
Moved == [Plain EXCEPT !.revisions = <<Rev(3, TRUE), Rev(2, TRUE)>>]
Light == [Plain EXCEPT !.revisions = <<>>]

RefreshKeys == {KeyEvent("Char", "r", FALSE, TRUE), Char("j")}
RefreshSnapshots == {Loaded(Plain), Loaded(Moved), Loaded(Light), LoadFailed}

NextRefresh ==
    \/ Startup
    \/ Tick
    \/ KeyPress(RefreshKeys)
    \/ SnapshotDone(RefreshSnapshots)
    \/ DetailDone({[ok |-> TRUE, text |-> "diff"]})

SpecRefresh == InitPlain /\ [][NextRefresh]_vars

\* The rebase picker on a repository whose revisions change between
\* refreshes: Head3 has lost revisions 2 and 1.
Head3 == [Plain EXCEPT !.revisions = <<Rev(3, TRUE)>>]

RebaseKeys ==
    {Char("r"), Char("j"), Named("Tab"), Named("Enter"), Named("Esc"),
     KeyEvent("Char", "r", FALSE, TRUE)}
RebaseSnapshots == {Loaded(Plain), Loaded(Moved), Loaded(Head3)}

NextRebase ==
    \/ Startup
    \/ KeyPress(RebaseKeys)
    \/ SnapshotDone(RebaseSnapshots)
    \/ DetailDone({[ok |-> TRUE, text |-> "diff"]})
    \/ ActionDone({[outcome |-> "success", output |-> FALSE]})

SpecRebase == InitPlain /\ [][NextRebase]_vars

\* Continuing and aborting a rebase on a repository that is, or is not, in the
\* middle of one, with its conflict resolved or not.
Conflict(path, resolved) == [path |-> path, resolved |-> resolved]
Stopped ==
    [Plain EXCEPT !.conflicts = <<Conflict("a.txt", FALSE)>>,
                  !.rebase = build_rebase_state(TRUE, <<Conflict("a.txt", FALSE)>>)]
Resolved ==
    [Plain EXCEPT !.conflicts = <<Conflict("a.txt", TRUE)>>,
                  !.rebase = build_rebase_state(TRUE, <<Conflict("a.txt", TRUE)>>)]

ResumeKeys == {Char("C"), Char("A"), Named("Enter"), Named("Esc")}
ResumeSnapshots == {Loaded(Plain), Loaded(Stopped), Loaded(Resolved)}
ResumeResults == {[outcome |-> o, output |-> FALSE] : o \in {"success", "failure"}}

NextResume ==
    \/ Startup
    \/ KeyPress(ResumeKeys)
    \/ SnapshotDone(ResumeSnapshots)
    \/ DetailDone({[ok |-> TRUE, text |-> "diff"]})
    \/ ActionDone(ResumeResults)

SpecResume == InitPlain /\ [][NextResume]_vars

\* The action keys and the confirmation modal, on a repository stopped in a
\* rebase with its conflict resolved, where every command offers itself.  The
\* commands started here outlast the scenario.
ConfirmKeys ==
    {Char("p"), Char("P"), Char("u"), Char("U"), Char("r"), Char("C"), Char("A"),
     Char("j"), Named("Tab"), Named("Enter"), Named("Esc")}

NextConfirm ==
    \/ Startup
    \/ KeyPress(ConfirmKeys)
    \/ SnapshotDone({Loaded(Resolved)})
    \/ DetailDone({[ok |-> TRUE, text |-> "diff"]})

SpecConfirm == InitPlain /\ [][NextConfirm]_vars

\* The completion of commands: a direct one (pull), a confirmed one (push) and
\* one of the rebase family (resolve), with every outcome.
ActionKeys == {Char("P"), Char("p"), Char("m"), Named("Enter")}
Outcomes == {[outcome |-> o, output |-> FALSE] : o \in {"success", "failure", "error"}}

NextActions ==
    \/ Startup
    \/ KeyPress(ActionKeys)
    \/ SnapshotDone({Loaded(Resolved)})
    \/ DetailDone({[ok |-> TRUE, text |-> "diff"]})
    \/ ActionDone(Outcomes)

SpecActions == InitPlain /\ [][NextActions]_vars

\* The commit-file selection on a repository that loses a changed file
\* between refreshes (Short).
Short == [Plain EXCEPT !.files = <<"b.txt">>]

SelectKeys == {Char("v"), Char("V"), Char("j"), KeyEvent("Char", "r", FALSE, TRUE)}

NextSelect ==
    \/ Startup
    \/ KeyPress(SelectKeys)
    \/ SnapshotDone({Loaded(Plain), Loaded(Short), LoadFailed})
    \/ DetailDone({[ok |-> TRUE, text |-> "diff"]})

SpecSelect == InitPlain /\ [][NextSelect]_vars

\* A commit of the selected files and a pull, run to every outcome.
CommitKeys == {Char("v"), Char("c"), Char("P"), Named("Enter")}

NextCommit ==
    \/ Startup
    \/ KeyPress(CommitKeys)
    \/ SnapshotDone({Loaded(Plain)})
    \/ DetailDone({[ok |-> TRUE, text |-> "diff"]})
    \/ ActionDone(Outcomes)

SpecCommit == InitPlain /\ [][NextCommit]_vars

\* The kinds of pointer event and the frames the terminal is resized to.
MouseKinds == {"Down", "ScrollDown", "ScrollUp", "Moved"}
Heights == {2, PanelRows + 1, PanelRows + 2}

\* The three modals, opened by the keys that ask for them and by the command
\* palette of a configuration with custom commands.
ModalKeys ==
    {Char("p"), Char("c"), Char(":"), Char("j"), Named("Enter"), Named("Esc")}

NextModal ==
    \/ Startup
    \/ KeyPress(ModalKeys)
    \/ SnapshotDone({Loaded(Plain)})
    \/ DetailDone({[ok |-> TRUE, text |-> "diff"]})

SpecModal == Init /\ [][NextModal]_vars

\* The pointer over the Revisions panel and the detail pane while the modals
\* open and close.  The detail fetches started here outlast the scenario.
BlockedKeys == {Char("p"), Char("c"), Char(":"), Named("Esc")}

NextBlocked ==
    \/ Startup
    \/ KeyPress(BlockedKeys)
    \/ Mouse({"Down", "ScrollDown", "Moved"}, {"Revisions", "Details"})
    \/ SnapshotDone({Loaded(Plain)})

SpecBlocked == Init /\ [][NextBlocked]_vars

\* The text-input modal for each of its purposes, with a blank and a
\* non-blank character to type.
InputKeys ==
    {Char("c"), Char("I"), Char("b"), Char("s"), Char(" "), Char("x"), Named("Enter")}

NextInput ==
    \/ Startup
    \/ KeyPress(InputKeys)
    \/ SnapshotDone({Loaded(Plain)})
    \/ DetailDone({[ok |-> TRUE, text |-> "diff"]})

SpecInput == InitPlain /\ [][NextInput]_vars

\* Selection by keys, wheel and clicks on a terminal that is resized, over a
\* repository whose lists grow (Long) and shrink (Plain) between refreshes.
\* The detail fetches started here outlast the scenario.
Long ==
    [Plain EXCEPT !.files = <<"a.txt", "b.txt", "c.txt">>,
                  !.revisions = <<Rev(3, TRUE), Rev(2, TRUE), Rev(1, TRUE)>>]

PointerKeys == {Char("j"), KeyEvent("Char", "r", FALSE, TRUE)}

NextPointer ==
    \/ Startup
    \/ KeyPress(PointerKeys)
    \/ Mouse({"Down", "ScrollDown"}, {"Files", "Log"})
    \/ Resize({PanelRows + 1, PanelRows + 2})
    \/ SnapshotDone({Loaded(Plain), Loaded(Long)})

SpecPointer == InitPlain /\ [][NextPointer]_vars

\* Clicks, double clicks, the wheel and the move key on the rows of the Files
\* and Revisions panels of a repository that holds still.
NextClick ==
    \/ Startup
    \/ KeyPress({Char("j")})
    \/ Mouse({"Down", "ScrollDown"}, {"Files", "Revisions"})
    \/ SnapshotDone({Loaded(Long)})
    \/ DetailDone({[ok |-> TRUE, text |-> "diff"]})

SpecClick == InitPlain /\ [][NextClick]_vars

\* The timer against the manual and the hard refresh keys.
TimerKeys == {KeyEvent("Char", "r", FALSE, TRUE), KeyEvent("Char", "l", TRUE, FALSE)}

NextTimer ==
    \/ Startup
    \/ Tick
    \/ KeyPress(TimerKeys)
    \/ SnapshotDone({Loaded(Plain)})
    \/ DetailDone({[ok |-> TRUE, text |-> "diff"]})

SpecTimer == InitPlain /\ [][NextTimer]_vars

\* The timer against the refreshes of the other origins: a pull that
\* completes and an interactive commit.
ThrottleKeys ==
    {Char("P"), Char("I"), Named("Enter")}

NextThrottle ==
    \/ Startup
    \/ InteractiveCommit
    \/ Tick
    \/ KeyPress(ThrottleKeys)
    \/ SnapshotDone({Loaded(Plain)})
    \/ DetailDone({[ok |-> TRUE, text |-> "diff"]})
    \/ ActionDone({[outcome |-> "success", output |-> FALSE]})

SpecThrottle == InitPlain /\ [][NextThrottle]_vars

\* The request ids of a long run: the key that reloads the detail pane, pressed
\* until the counter has gone through every value of its width.
Reload ==
    /\ awaiting
    /\ Len(tasks) < MaxTasks
    /\ Becomes(handle_key(Self, Char("d")))
    /\ last_event' = [kind |-> "Key", key |-> Char("d")]

NextIds ==
    \/ Startup
    \/ Reload
    \/ SnapshotDone({Loaded(Plain)})
    \/ DetailDone({[ok |-> TRUE, text |-> "diff"]})

SpecIds == InitPlain /\ [][NextIds]_vars

\* The detail pane across refreshes: the timer's refresh (which preserves the
\* pane) and the manual one (which does not), on a pane scrolled by the wheel
\* and a repository whose first file goes away (Short) or whose files all go
\* away (Clean).
Clean == [Plain EXCEPT !.files = <<>>]

PreserveKeys == {KeyEvent("Char", "r", FALSE, TRUE), Char("j")}

NextPreserve ==
    \/ Startup
    \/ Tick
    \/ KeyPress(PreserveKeys)
    \/ Mouse({"ScrollDown"}, {"Details"})
    \/ SnapshotDone({Loaded(Plain), Loaded(Short), Loaded(Clean)})
    \/ DetailDone({[ok |-> TRUE, text |-> "diff"]})

SpecPreserve == InitPlain /\ [][NextPreserve]_vars

\* The keys of the keymap pressed while a modal is open: a rebase source is
\* picked, then the push confirmation or the commit message input is opened
\* and the keys that quit, move, switch panel, toggle a file and cancel are
\* pressed into it.  The commands started here
\* outlast the scenario.
ShieldedKeys ==
    {Char("r"), Char("p"), Char("c"), Char("q"), Char("j"), Char("v"),
     Named("Tab"), Named("Enter"), Named("Esc")}

NextShielded ==
    \/ Startup
    \/ KeyPress(ShieldedKeys)
    \/ SnapshotDone({Loaded(Plain)})
    \/ DetailDone({[ok |-> TRUE, text |-> "diff"]})

SpecShielded == InitPlain /\ [][NextShielded]_vars

\* ------------------------------------------------------- the whole session

\* Every key the keymap binds, the keys of the modals and two characters to
\* type.
Keys ==
    {Char(c) : c \in {"q", "?", "j", "k", "d", ":", "v", "V", "c", "I", "b", "s", "p",
                      "P", "i", "o", "u", "U", "m", "M", "r", "C", "A", "H", "y", "n",
                      "x", " "}}
    \cup {Named(code) : code \in {"Tab", "BackTab", "Up", "Down", "Enter", "Esc",
                                  "Backspace"}}
    \cup {KeyEvent("Char", "r", FALSE, TRUE), KeyEvent("Char", "l", TRUE, FALSE)}

Snapshots ==
    {Loaded(snap) : snap \in {Plain, Moved, Light, Head3, Stopped, Resolved, Long, Short}}
    \cup {LoadFailed}

Next ==
    \/ Startup
    \/ InteractiveCommit
    \/ Tick
    \/ KeyPress(Keys)
    \/ Mouse(MouseKinds, Regions)
    \/ Resize(Heights)
    \/ SnapshotDone(Snapshots)
    \/ DetailDone(DetailResults)
    \/ ActionDone(ActionResults)

Spec == Init /\ [][Next]_vars

\* ------------------------------------------------- functions of the client
\* Each specification below evaluates one function on every input of a
\* bounded set: the initial state holds the input, the step stores the result.

\* The function `fn` is evaluated and `result` stored.
Returns(fn, result) ==
    /\ call.fn = fn /\ call.result = None
    /\ call' = [call EXCEPT !.result = Some(result)]
    /\ UNCHANGED <<session, tasks, last_event, hg>>

\* Logs of up to MaxRevisions revisions numbered 7 to 9, as the log parsers
\* return them (no prefix), and graphs of up to MaxGraphRows rows.
Logs ==
    {[i \in DOMAIN revs |-> Revision(revs[i], <<"node", i>>, None)] :
        revs \in SeqsUpTo(7..9, MaxRevisions)}

Graphs ==
    SeqsUpTo({ParsedGraphRow(rev, prefix) : rev \in 7..9, prefix \in {"@", "o"}},
             MaxGraphRows)

MergeCalls ==
    {[fn |-> "merge_log_graph", revisions |-> revisions, graph_rows |-> graph_rows,
      result |-> None] : revisions \in Logs, graph_rows \in Graphs}

InitMerge == InitCall(MergeCalls)

MergeLogGraph ==
    Returns("merge_log_graph", merge_log_graph(call.revisions, call.graph_rows))

SpecMerge == InitMerge /\ [][MergeLogGraph]_vars

\* Custom commands of a program and one extra argument of up to MaxRawLen
\* symbols, prepared in a selection context that binds repo_root, branch and
\* some of file and rev (to a value that holds no brace).
Programs == {<<"hg">>, <<"{", "rev", "}">>, <<" ">>}

RawArgs == SeqsUpTo({"{", "}", "file", "rev"}, MaxRawLen)

Bindings ==
    UNION {[{<<"repo_root">>, <<"branch">>} \cup bound -> {<<"/">>}] :
              bound \in SUBSET {<<"file">>, <<"rev">>}}

PrepareCalls ==
    {[fn |-> "prepare_custom_run_action", raws |-> <<program, arg>>, vars |-> bindings,
      result |-> None] : program \in Programs, arg \in RawArgs, bindings \in Bindings}

InitPrepare == InitCall(PrepareCalls)

PrepareCustomRunAction ==
    Returns("prepare_custom_run_action", prepare_invocation(call.raws, call.vars))

SpecPrepare == InitPrepare /\ [][PrepareCustomRunAction]_vars

\* Command strings of up to MaxCommandLen characters.
CommandStrings == SeqsUpTo({"a", " ", "'", "\"", "\\"}, MaxCommandLen)

ParseCalls ==
    {[fn |-> "parse_command_parts", raw |-> raw, result |-> None] :
        raw \in CommandStrings}

InitParse == InitCall(ParseCalls)

ParseCommandParts == Returns("parse_command_parts", parse_command_parts(call.raw))

SpecParse == InitParse /\ [][ParseCommandParts]_vars

\* Key binding strings of up to MaxBindingLen symbols.
BindingStrings ==
    SeqsUpTo({"+", " ", "Ctrl", "shift", "cmd", "A", "BackTab", "Escape"}, MaxBindingLen)

CanonicalizeCalls ==
    {[fn |-> "canonicalize_key_binding", raw |-> raw, result |-> None] :
        raw \in BindingStrings}

InitCanonicalize == InitCall(CanonicalizeCalls)

CanonicalizeKeyBinding ==
    Returns("canonicalize_key_binding", canonicalize_key_binding(call.raw))

SpecCanonicalize == InitCanonicalize /\ [][CanonicalizeKeyBinding]_vars

\* Key overrides of some of four action names, one of them unknown, to keys
\* that are free ("x"), taken by a built-in binding ("j", "q", "Ctrl+l") or
\* invalid ("meta+x").
OverrideNames == {"quit", "help", "move_down", "bogus"}

OverrideKeys == {<<"x">>, <<"j">>, <<"q">>, <<"Ctrl", "+", "l">>, <<"meta", "+", "x">>}

Overrides == UNION {[names -> OverrideKeys] : names \in SUBSET OverrideNames}

\* The orders in which a HashMap of the keys S may be iterated.
Orders(S) ==
    {order \in [1..Cardinality(S) -> S] :
        \A i, j \in DOMAIN order : i # j => order[i] # order[j]}

\* Two of the orders in which action_to_keys may be iterated.
ActionOrders ==
    {ActionId_all,
     [i \in DOMAIN ActionId_all |-> ActionId_all[Len(ActionId_all) + 1 - i]]}

KeymapCalls ==
    {[fn |-> "new_with_startup_issues", overrides |-> overrides, result |-> None] :
        overrides \in Overrides}

InitKeymap == InitCall(KeymapCalls)

NewKeymap ==
    \E names \in Orders(DOMAIN call.overrides), actions \in ActionOrders :
        Returns("new_with_startup_issues", new_keymap(call.overrides, names, actions))

SpecKeymap == InitKeymap /\ [][NewKeymap]_vars

\* ------------------------------------------------- refreshes on the client
\* The background half of a refresh: the refreshes `ids` run on the one
\* client, each a step at a time (every await of detect_capabilities is a
\* point where another refresh can run).

\* hg.refresh_snapshot(options) is called: detect_capabilities reads the cache.
RefreshStart(ids) ==
    /\ \E i \in ids, include_revisions \in BOOLEAN :
          /\ hg.refreshes[i].pc = "idle"
          /\ hg' = detect_cached(hg, i, SnapshotOptions(LOG_LIMIT, include_revisions))
    /\ UNCHANGED <<session, tasks, last_event, call>>

\* The probes of detect_capabilities have run.
Probe(ids, capabilities) ==
    /\ \E i \in ids, detected \in capabilities :
          /\ hg.refreshes[i].pc = "probing"
          /\ hg' = detect_probed(hg, i, detected)
    /\ UNCHANGED <<session, tasks, last_event, call>>

\* detect_capabilities stores what it detected and returns it.
Store(ids) ==
    /\ \E i \in ids :
          /\ hg.refreshes[i].pc = "storing"
          /\ hg' = detect_stored(hg, i)
    /\ UNCHANGED <<session, tasks, last_event, call>>

\* The rest of refresh_snapshot, with hg answering as `answers` says.
Assemble(ids, answers) ==
    /\ \E i \in ids, answer \in answers :
          /\ hg.refreshes[i].pc = "detected"
          /\ hg' = assembled(hg, i, answer)
    /\ UNCHANGED <<session, tasks, last_event, call>>

\* An hg that answers every command.
AllOk == [query \in Queries |-> "ok"]

\* An hg with and without the structured output, detected by probes that can
\* fail for the run of one detection.
Json == HgCapabilities(TRUE, TRUE, TRUE, TRUE)
Legacy == HgCapabilities(TRUE, FALSE, FALSE, FALSE)

\* Two refreshes that overlap in every way.
NextDetect ==
    \/ RefreshStart(1..MaxRefreshes)
    \/ Probe(1..MaxRefreshes, {Json, Legacy})
    \/ Store(1..MaxRefreshes)
    \/ Assemble(1..MaxRefreshes, {AllOk})

SpecDetect == InitPlain /\ [][NextDetect]_vars

\* One refresh against every combination of the structured-output flags and
\* every answer to the structured and the legacy queries of the three
\* features.
FlagSets ==
    {HgCapabilities(TRUE, status, log, bookmarks) :
        status \in BOOLEAN, log \in BOOLEAN, bookmarks \in BOOLEAN}

FeatureQueries ==
    {"status -Tjson", "status", "bookmarks -Tjson", "bookmarks", "log -Tjson", "log -T"}

FeatureAnswers ==
    {[query \in Queries |-> IF query \in FeatureQueries THEN given[query] ELSE "ok"] :
        given \in {g \in [FeatureQueries -> Answers] :
                      g["status"] # "unparsable" /\ g["bookmarks"] # "unparsable"}}

NextAssemble ==
    \/ RefreshStart({1})
    \/ Probe({1}, FlagSets)
    \/ Store({1})
    \/ Assemble({1}, FeatureAnswers)

SpecAssemble == InitPlain /\ [][NextAssemble]_vars

\* ------------------------------------------------------------ properties

\* The step is a key press that reaches dispatch_action with `action`: no modal
\* is open before it and the keymap binds the key to the action.
Dispatched(action) ==
    /\ last_event'.kind = "Key"
    /\ ~IsSome(confirmation) /\ ~IsSome(input) /\ ~IsSome(command_palette)
    /\ action_for_event(last_event'.key) = Some(action)

\* C1: a DetailLoaded event whose request id is the latest issued one puts
\* that fetch's output in the detail pane; one whose id is not the latest
\* changes no field of the session.  So of two fetches in flight, delivered
\* in either order, the pane ends with the later-issued fetch's output.
C1_StaleDetailDropped ==
    /\ [](last_event.kind = "DetailLoaded" /\ last_event.request_id = detail_request_id
            => detail_text.of = last_event.request_id /\ details_scroll = 0)
    /\ [][last_event'.kind = "DetailLoaded" /\ last_event'.request_id # detail_request_id
            => UNCHANGED session]_vars

\* The later-issued fetch was delivered and shown, then the earlier-issued
\* one arrived and was dropped.
C1_Witness ==
    /\ last_event.kind = "DetailLoaded"
    /\ last_event.request_id < detail_request_id
    /\ last_event.result.ok /\ last_event.result.text = "diff"
    /\ detail_text.of = detail_request_id

\* C2: when a snapshot that was requested without revisions is applied, the
\* session's revision list afterwards is the list it held before, whatever
\* list the assembler returned.
C2_RevisionsCarriedForward ==
    [][last_event'.kind = "SnapshotLoaded" /\ last_event'.result.ok
         /\ ~last_event'.include_revisions
            => snapshot'.revisions = snapshot.revisions]_vars

\* A refresh without revisions was applied to a session holding revisions,
\* and the assembler had returned a different list.
C2_Witness ==
    /\ last_event.kind = "SnapshotLoaded"
    /\ last_event.result.ok
    /\ ~last_event.include_revisions
    /\ snapshot.revisions # <<>>
    /\ last_event.result.snapshot.revisions # snapshot.revisions
    /\ last_event.result.snapshot.revisions # <<>>

\* The commands claim C3 names.
Destructive(action) ==
    /\ action.variant = "Hg"
    /\ action.type \in {"Push", "RebaseSourceDest", "RebaseContinue", "RebaseAbort",
                        "Unshelve", "UpdateToRevision", "UpdateToBookmark"}

Accepts(key) == key.code = "Enter" \/ (key.code = "Char" /\ key.ch = "y")
Cancels(key) == key.code = "Esc" \/ (key.code = "Char" /\ key.ch = "n")

\* C3: a destructive or remote command is started only by the key that accepts
\* the open confirmation, and it is the command that confirmation names; no
\* other step starts a command of that kind, and cancelling the confirmation
\* closes it and starts nothing.
C3_DestructiveNeedsConfirmation ==
    /\ [][last_event'.kind = "Key"
            => /\ SubSeq(tasks', 1, Len(tasks)) = tasks
               /\ \A i \in (Len(tasks) + 1)..Len(tasks') :
                     tasks'[i].kind = "action" /\ Destructive(tasks'[i].action)
                        => /\ IsSome(confirmation)
                           /\ Unwrap(confirmation).action = tasks'[i].action
                           /\ Accepts(last_event'.key)
                           /\ confirmation' = None]_vars
    /\ [][last_event'.kind # "Key"
            => InFlight(tasks', "action") <= InFlight(tasks, "action")]_vars
    /\ [][last_event'.kind = "Key" /\ IsSome(confirmation) /\ Cancels(last_event'.key)
            => tasks' = tasks /\ confirmation' = None]_vars

\* An update to a bookmark was confirmed and is in flight.
C3_Witness ==
    /\ last_event.kind = "Key" /\ Accepts(last_event.key)
    /\ confirmation = None
    /\ \E i \in 1..Len(tasks) :
          tasks[i].kind = "action" /\ tasks[i].action.type = "UpdateToBookmark"

\* C4 as stated: the handling of every ActionFinished event, whatever its
\* result, issues a snapshot refresh.
C4_RefreshAfterEveryOutcome ==
    [][last_event'.kind = "ActionFinished"
         => InFlight(tasks', "snapshot") = InFlight(tasks, "snapshot") + 1]_vars

\* C4, amended: the handling of an ActionFinished event issues one snapshot
\* refresh when the command ran (exit status zero or not), and starts nothing
\* when the command could not be spawned.
C4_RefreshWhenCommandRan ==
    [][last_event'.kind = "ActionFinished"
         => IF last_event'.result.outcome \in {"success", "failure"}
            THEN /\ InFlight(tasks', "snapshot") = InFlight(tasks, "snapshot") + 1
                 /\ last_refresh' = 0
            ELSE /\ Len(tasks') = Len(tasks) - 1
                 /\ InFlight(tasks', "snapshot") = InFlight(tasks, "snapshot")
                 /\ last_refresh' = last_refresh]_vars

\* A command that exited non-zero has been handled and its refresh is in flight.
C4_Witness ==
    /\ last_event.kind = "ActionFinished"
    /\ last_event.result.outcome = "failure"
    /\ InFlight(tasks, "snapshot") = 1
    /\ last_refresh = 0

\* C5 as stated: the refresh issued when a command has finished is requested
\* without revisions.
C5_PostActionRefreshLight ==
    [][last_event'.kind = "ActionFinished"
         /\ InFlight(tasks', "snapshot") > InFlight(tasks, "snapshot")
            => ~tasks'[Len(tasks')].include_revisions]_vars

\* C5, amended: the refresh issued when a command has finished is a full one:
\* requested with revisions, and with the detail pane to be reloaded.
C5_PostActionRefreshFull ==
    [][last_event'.kind = "ActionFinished"
         /\ InFlight(tasks', "snapshot") > InFlight(tasks, "snapshot")
            => tasks'[Len(tasks')] = SnapshotTask(FALSE, TRUE)]_vars

\* A command has finished with success and the full refresh that follows it
\* is the unit started last.
C5_Witness ==
    /\ last_event.kind = "ActionFinished"
    /\ last_event.result.outcome = "success"
    /\ tasks # <<>>
    /\ tasks[Len(tasks)] = SnapshotTask(FALSE, TRUE)

\* The status line that states the result of a finished command.
OutcomeStatus(s, ev, result) ==
    CASE result.outcome = "success" ->
            handle_rebase_action_success_hint(s, ev.action_kind, ev.action_preview).status_line
      [] result.outcome = "failure" ->
            handle_rebase_action_failure_hint(s, ev.action_kind, ev.action_preview).status_line
      [] OTHER -> "Command error: " \o ev.action_preview

\* The log line that states the result of a finished command.
OutcomeLine(ev, result) ==
    CASE result.outcome = "success" -> "OK: " \o ev.action_preview
      [] result.outcome = "failure" -> "FAILED: " \o ev.action_preview
      [] OTHER -> "ERROR: " \o ev.action_preview

\* C6: when an ActionFinished event has been handled, the status line states
\* the command's result and the last line of the log states it too.
C6_OutcomeReported ==
    [][last_event'.kind = "ActionFinished"
         => /\ status_line' = OutcomeStatus(Self, last_event', last_event'.result)
            /\ log_lines' # <<>>
            /\ log_lines'[Len(log_lines')] = OutcomeLine(last_event', last_event'.result)]_vars

\* C7: with source S pending, the rebase action on the revision S itself keeps
\* S pending, opens no confirmation and starts no command.
C7_SameRevisionKeepsSource ==
    [][Dispatched("RebaseSelected") /\ IsSome(pending_rebase_source)
         /\ IsSome(selected_revision(Self))
         /\ Unwrap(selected_revision(Self)).rev = Unwrap(pending_rebase_source)
            => /\ pending_rebase_source' = pending_rebase_source
               /\ confirmation' = None
               /\ tasks' = tasks]_vars

\* The rebase key was pressed on the pending source: the session asks for a
\* different destination and still holds the source.
C7_Witness ==
    /\ last_event.kind = "Key" /\ last_event.key = Char("r")
    /\ IsSome(pending_rebase_source)
    /\ IsSome(selected_revision(Self))
    /\ Unwrap(selected_revision(Self)).rev = Unwrap(pending_rebase_source)
    /\ status_line = "Select a different destination revision, then press rebase again."

\* C8: with source S pending and rebase available, the rebase action on another
\* revision D clears the pending source and opens the confirmation of
\* rebase -s S -d D without starting it; and no rebase confirmation, and no
\* rebase command in flight, ever has its source equal to its destination.
C8_DifferentRevisionConfirms ==
    /\ [][Dispatched("RebaseSelected") /\ snapshot.capabilities.has_rebase
            /\ IsSome(pending_rebase_source) /\ IsSome(selected_revision(Self))
            /\ Unwrap(selected_revision(Self)).rev # Unwrap(pending_rebase_source)
               => /\ pending_rebase_source' = None
                  /\ IsSome(confirmation')
                  /\ Unwrap(confirmation').action =
                        [HgAction("RebaseSourceDest") EXCEPT
                            !.rev = Unwrap(pending_rebase_source),
                            !.dest = Unwrap(selected_revision(Self)).rev]
                  /\ tasks' = tasks]_vars
    /\ [](IsSome(confirmation) /\ Unwrap(confirmation).action.type = "RebaseSourceDest"
            => Unwrap(confirmation).action.rev # Unwrap(confirmation).action.dest)
    /\ [](\A i \in 1..Len(tasks) :
            tasks[i].kind = "action" /\ tasks[i].action.type = "RebaseSourceDest"
                => tasks[i].action.rev # tasks[i].action.dest)

\* The second press, on another revision, has opened the confirmation of
\* source 2 -> destination 1.
C8_Witness ==
    /\ last_event.kind = "Key" /\ last_event.key = Char("r")
    /\ pending_rebase_source = None
    /\ IsSome(confirmation)
    /\ Unwrap(confirmation).action.type = "RebaseSourceDest"
    /\ Unwrap(confirmation).action.rev = 2
    /\ Unwrap(confirmation).action.dest = 1

\* C9: the continue action opens no confirmation and starts no command while
\* no rebase is in progress or a conflict is unresolved; the abort action
\* does neither while no rebase is in progress.
C9_ResumeBlocked ==
    /\ [][Dispatched("RebaseContinue")
            /\ (~snapshot.rebase.in_progress \/ snapshot.rebase.unresolved_conflicts > 0)
               => confirmation' = None /\ tasks' = tasks]_vars
    /\ [][Dispatched("RebaseAbort") /\ ~snapshot.rebase.in_progress
               => confirmation' = None /\ tasks' = tasks]_vars

\* Continue was pressed in the middle of a rebase with a conflict unresolved,
\* and was refused.
C9_Witness ==
    /\ last_event.kind = "Key" /\ last_event.key = Char("C")
    /\ snapshot.rebase.in_progress
    /\ snapshot.rebase.unresolved_conflicts > 0
    /\ confirmation = None
    /\ status_line = "Cannot continue rebase: 1 unresolved conflict(s) remain."

\* C10: the pending rebase source is absent or the number of a revision of the
\* session's revision list.
C10_PendingSourceVisible ==
    IsSome(pending_rebase_source)
        => source_still_visible(Self, Unwrap(pending_rebase_source))

\* A refresh brought a revision list without the pending source, and the
\* source was dropped.
C10_Witness ==
    /\ last_event.kind = "SnapshotLoaded"
    /\ last_event.result.ok
    /\ pending_rebase_source = None
    /\ \E i \in 1..Len(log_lines) :
          log_lines[i] = "Rebase source revision 2 disappeared; selection cleared."

\* One of the three modals is open.
AnyModalOpen == IsSome(confirmation) \/ IsSome(input) \/ IsSome(command_palette)

\* The fields of the session s, in the order of `session`.
Fields(s) ==
    <<s.focus, s.snapshot, s.detail_text, s.details_scroll, s.log_lines, s.status_line,
      s.input, s.confirmation, s.command_palette, s.commit_file_selection,
      s.interactive_commit_request, s.should_quit,
      s.files_idx, s.rev_idx, s.bookmarks_idx, s.shelves_idx, s.conflicts_idx, s.log_idx,
      s.files_offset, s.rev_offset, s.bookmarks_offset, s.shelves_offset,
      s.conflicts_offset, s.last_refresh, s.detail_request_id, s.pending_rebase_source,
      s.commit_graph_warning_emitted, s.rebase_unavailable_notice_emitted,
      s.last_rebase_hint, s.ui_rects, s.last_mouse_click, s.custom_commands>>

\* What the keymap makes of a key: the action it binds the key to, dispatched.
KeymapStep(s, key) ==
    IF IsSome(action_for_event(key)) THEN dispatch_action(s, Unwrap(action_for_event(key)))
    ELSE s

\* C11: with no modal open, an Esc key with a rebase source pending clears the
\* source, says so in the status line and changes nothing else (no action of
\* the keymap is dispatched, nothing is started); with no source pending the
\* step is whatever the keymap makes of Esc.
C11_EscCancelsPendingSource ==
    [][last_event'.kind = "Key" /\ last_event'.key.code = "Esc" /\ ~AnyModalOpen
         => IF IsSome(pending_rebase_source)
            THEN /\ pending_rebase_source' = None
                 /\ session' = Fields([Self EXCEPT !.pending_rebase_source = None,
                                                   !.status_line =
                                                       "Rebase selection cancelled."])
                 /\ tasks' = tasks
            ELSE /\ session' = Fields(KeymapStep(Self, last_event'.key))
                 /\ tasks' = KeymapStep(Self, last_event'.key).tasks]_vars

\* Esc was pressed with a source pending and no modal open: the source is gone.
C11_Witness ==
    /\ last_event.kind = "Key" /\ last_event.key.code = "Esc"
    /\ pending_rebase_source = None
    /\ status_line = "Rebase selection cancelled."

\* C12: every path of the commit-file selection is a path of the session's
\* file list; a key adds to the selection only a path of the file list, and
\* applying a loaded snapshot leaves of the selection exactly the paths the
\* new file list has.
C12_SelectionWithinFiles ==
    /\ [](commit_file_selection \subseteq Range(snapshot.files))
    /\ [][last_event'.kind = "Key"
            => (commit_file_selection' \ commit_file_selection)
                   \subseteq Range(snapshot.files)]_vars
    /\ [][last_event'.kind = "SnapshotLoaded" /\ last_event'.result.ok
            => commit_file_selection' =
                   commit_file_selection \cap Range(snapshot'.files)]_vars

\* A refresh brought a file list without a selected path, and the path left
\* the selection while another stayed.
C12_Witness ==
    /\ last_event.kind = "SnapshotLoaded" /\ last_event.result.ok
    /\ snapshot.files = <<"b.txt">>
    /\ commit_file_selection = {"b.txt"}
    /\ files_idx = 0

\* C13: with no modal open, two presses of the toggle key in a row leave the
\* commit-file selection as it was, whatever the selection and whichever file
\* is selected.
C13_ToggleTwiceRestores ==
    ~AnyModalOpen
        => handle_key(handle_key(Self, Char("v")), Char("v")).commit_file_selection
              = commit_file_selection

\* The toggle key was pressed on a file while another file was in the
\* selection, and the file was added.
C13_Witness ==
    /\ last_event.kind = "Key" /\ last_event.key = Char("v")
    /\ ~AnyModalOpen
    /\ IsSome(Get(snapshot.files, files_idx))
    /\ Unwrap(Get(snapshot.files, files_idx)) \in commit_file_selection
    /\ Cardinality(commit_file_selection) = 2

\* C14: the handling of an ActionFinished event empties the commit-file
\* selection when the command was a plain commit that exited zero, and leaves
\* the selection as it was in every other case.
C14_SelectionClearedOnCommitSuccess ==
    [][last_event'.kind = "ActionFinished"
         => commit_file_selection' =
               IF /\ last_event'.action.variant = "Hg"
                  /\ last_event'.action.type = "Commit"
                  /\ last_event'.result.outcome = "success"
               THEN {} ELSE commit_file_selection]_vars

\* A commit of a selected file has failed and the file is still selected.
C14_Witness ==
    /\ last_event.kind = "ActionFinished"
    /\ last_event.action.type = "Commit"
    /\ last_event.result.outcome = "failure"
    /\ commit_file_selection # {}

\* The modals that are open in the session s.
OpenModals(s) ==
    {m \in {"confirmation", "input", "command_palette"} :
        CASE m = "confirmation" -> IsSome(s.confirmation)
          [] m = "input" -> IsSome(s.input)
          [] m = "command_palette" -> IsSome(s.command_palette)}

\* The session with the modals of `open` open on top of it.
Stacked(open) ==
    [Self EXCEPT
        !.confirmation = IF "confirmation" \in open
                         THEN Some([action |-> HgAction("Pull"), message |-> "Confirm"])
                         ELSE None,
        !.input = IF "input" \in open
                  THEN Some([title |-> "New bookmark", value |-> <<"x">>,
                             purpose |-> "BookmarkName"])
                  ELSE None,
        !.command_palette = IF "command_palette" \in open THEN Some([selected |-> 0])
                            ELSE None]

\* C15: at most one of the confirmation, the text input and the command
\* palette is open; and were several open at once, a key would go to the
\* confirmation before the text input, and to the text input before the
\* command palette, each key being handled by one modal only.
C15_OneModalInPriorityOrder ==
    /\ Cardinality(OpenModals(Self)) <= 1
    /\ \A key \in {Named("Esc"), Named("Enter"), Char("j")} :
          /\ LET all == Stacked({"confirmation", "input", "command_palette"}) IN
              /\ handle_key(all, key) = handle_confirmation_key(all, key)[1]
              /\ handle_key(all, key).input = all.input
              /\ handle_key(all, key).command_palette = all.command_palette
          /\ LET two == Stacked({"input", "command_palette"}) IN
              /\ handle_key(two, key) = handle_input_key(two, key)[1]
              /\ handle_key(two, key).command_palette = two.command_palette
          /\ LET one == Stacked({"command_palette"}) IN
              handle_key(one, key) = handle_command_palette_key(one, key)[1]

\* A custom command that asks for confirmation was run from the palette: the
\* palette has closed and the confirmation is the one modal open.
C15_Witness ==
    /\ last_event.kind = "Key" /\ last_event.key = Named("Enter")
    /\ IsSome(confirmation)
    /\ Unwrap(confirmation).action.variant = "Custom"
    /\ OpenModals(Self) = {"confirmation"}

\* C16: while a modal is open, a pointer event of any kind and at any position
\* changes neither the focus, nor a panel's index or offset, nor the detail
\* scroll, nor the latest detail request id, and starts nothing.
C16_ModalBlocksPointer ==
    [][last_event'.kind = "Mouse" /\ AnyModalOpen
         => /\ UNCHANGED <<focus, files_idx, rev_idx, bookmarks_idx, shelves_idx,
                           conflicts_idx, log_idx, files_offset, rev_offset,
                           bookmarks_offset, shelves_offset, conflicts_offset,
                           details_scroll, detail_request_id, last_mouse_click>>
            /\ tasks' = tasks]_vars

\* The left button went down on a row of the Revisions panel while the
\* confirmation was open and the Files panel had the focus.
C16_Witness ==
    /\ last_event.kind = "Mouse"
    /\ last_event.mouse.kind = "Down"
    /\ last_event.mouse.at = "Revisions"
    /\ last_event.mouse.y = 2
    /\ IsSome(confirmation)
    /\ focus = "Files"
    /\ Len(snapshot.revisions) = 2

\* The command the text-input modal starts for its purpose, on `value`.
InputAction(s, in, value) ==
    CASE in.purpose = "CommitMessage" ->
            [HgAction("Commit") EXCEPT !.files = s.commit_file_selection]
      [] in.purpose = "BookmarkName" -> [HgAction("BookmarkCreate") EXCEPT !.name = value]
      [] in.purpose = "ShelveName" -> [HgAction("ShelveCreate") EXCEPT !.name = value]

\* C17: Enter on the text-input modal whose value is empty or all blanks
\* leaves the modal open with its value, sets the status line to the refusal,
\* starts no command and queues no interactive commit; Enter on any other
\* value closes the modal and starts the one command of the modal's purpose
\* (or, for the interactive commit, queues its request) on the trimmed value.
C17_BlankInputRefused ==
    [][last_event'.kind = "Key" /\ last_event'.key.code = "Enter"
         /\ ~IsSome(confirmation) /\ IsSome(input)
         => LET in == Unwrap(input)
                value == to_string(trim(in.value))
            IN  IF trim(in.value) = <<>>
                THEN /\ input' = input
                     /\ status_line' = "Input cannot be empty."
                     /\ tasks' = tasks
                     /\ interactive_commit_request' = interactive_commit_request
                ELSE /\ input' = None
                     /\ IF in.purpose = "CommitMessageInteractive"
                        THEN /\ tasks' = tasks
                             /\ interactive_commit_request' =
                                    Some([message |-> value,
                                          files |-> commit_file_selection])
                        ELSE /\ tasks' = Append(tasks, ActionTask(InputAction(Self, in, value)))
                             /\ interactive_commit_request' =
                                    interactive_commit_request]_vars

\* Enter was pressed on a bookmark name of one blank: the modal is still open
\* with the blank in it.
C17_Witness ==
    /\ last_event.kind = "Key" /\ last_event.key.code = "Enter"
    /\ IsSome(input)
    /\ Unwrap(input).purpose = "BookmarkName"
    /\ Unwrap(input).value = <<" ">>
    /\ status_line = "Input cannot be empty."

\* C18: the selection index of each of the six panels is less than the length
\* of the panel's list, and is 0 when the list is empty.
C18_IndexWithinList ==
    \A panel \in Range(FocusPanel_all) :
        IF panel_len(Self, panel) = 0 THEN panel_index(Self, panel) = 0
        ELSE panel_index(Self, panel) < panel_len(Self, panel)

\* The wheel was turned down over the Log panel and the log's index is on the
\* last line of the log.
C18_Witness ==
    /\ last_event.kind = "Mouse"
    /\ last_event.mouse.kind = "ScrollDown"
    /\ last_event.mouse.at = "Log"
    /\ focus = "Log"
    /\ Len(log_lines) = MaxLogLines
    /\ log_idx = Len(log_lines) - 1

\* The panels that keep an offset of their own.
ListPanels == {"Files", "Revisions", "Bookmarks", "Shelves", "Conflicts"}

\* The selection of `panel` in the session s is inside the panel's window.
InWindow(s, panel) ==
    LET len == panel_len(s, panel)
        rows == Max(panel_body_rows(s, panel), 1)
    IN  len > 0 =>
            /\ panel_offset(s, panel) <= panel_index(s, panel)
            /\ panel_index(s, panel) < panel_offset(s, panel) + rows
            /\ len >= rows => panel_offset(s, panel) <= len - rows

\* The step is a key or pointer event that changes the index of `panel`.
Selects(panel) ==
    /\ last_event'.kind \in {"Key", "Mouse"}
    /\ panel_index(Self', panel) # panel_index(Self, panel)

\* C19: after a key or pointer event that changes a panel's selection, and
\* after a loaded snapshot has been applied, the selection of every list panel
\* with a non-empty list is inside that panel's window of `rows` lines, and
\* the window does not reach past the end of the list.
C19_SelectionInWindow ==
    [][(\E panel \in Range(FocusPanel_all) : Selects(panel))
         \/ (last_event'.kind = "SnapshotLoaded" /\ last_event'.result.ok)
            => \A panel \in ListPanels : InWindow(Self', panel)]_vars

\* The step issues a detail fetch tagged with the next request id.
Fetches ==
    /\ detail_request_id' = next_request_id(Self)
    /\ detail_request_id' # detail_request_id
    /\ tasks' = Append(tasks, DetailTask(detail_request_id'))

\* The step is a press of the left button that repeats the previous click.
DoubleClicks ==
    /\ last_event'.kind = "Mouse" /\ last_event'.mouse.kind = "Down"
    /\ is_double_click(Self, last_event'.mouse.at,
                       list_row_from_point(Self, last_event'.mouse.at, last_event'.mouse),
                       last_event'.quick)

\* C20 as stated: every key or pointer event that changes the selected row of
\* the Files or the Revisions panel issues a detail fetch with a new id.
C20_SelectionFetchesDetail ==
    [][Selects("Files") \/ Selects("Revisions") => Fetches]_vars

\* C20, amended: a keyboard move or a turn of the wheel that changes the
\* selected row of the Files or the Revisions panel issues a detail fetch with
\* a new id; a press of the left button that changes it issues that fetch when
\* it repeats the previous click (a double click), and otherwise issues no
\* fetch and leaves the latest request id as it was.
C20_MoveAndWheelFetchDetail ==
    [][Selects("Files") \/ Selects("Revisions")
         => IF last_event'.kind = "Mouse" /\ last_event'.mouse.kind = "Down"
               /\ ~DoubleClicks
            THEN detail_request_id' = detail_request_id /\ tasks' = tasks
            ELSE Fetches]_vars

\* A single click has selected the second revision: no detail fetch was issued
\* since the one that followed the first refresh, and nothing is in flight.
C20_Witness ==
    /\ last_event.kind = "Mouse" /\ last_event.mouse.kind = "Down"
    /\ last_event.mouse.at = "Revisions"
    /\ focus = "Revisions"
    /\ rev_idx = 1
    /\ detail_request_id = 2
    /\ tasks = <<>>

\* The units the step has put in flight: those of tasks' that follow the ones
\* the step did not take out of tasks.
Issued ==
    LET kept == IF last_event'.kind \in {"SnapshotLoaded", "DetailLoaded", "ActionFinished"}
                THEN Len(tasks) - 1 ELSE Len(tasks)
    IN  {tasks'[i] : i \in (kept + 1)..Len(tasks')}

\* The refreshes among them.
IssuedRefreshes == {task \in Issued : task.kind = "snapshot"}

\* C21: a refresh the timer's tick issues asks for no revisions, a refresh the
\* manual refresh key or the hard refresh key issues asks for them, and both
\* ask for LOG_LIMIT revisions at most.
C21_TimerLightManualFull ==
    [][/\ last_event'.kind = "Tick"
            => \A task \in IssuedRefreshes :
                   task.options = SnapshotOptions(LOG_LIMIT, FALSE)
       /\ Dispatched("RefreshSnapshot") \/ Dispatched("HardRefresh")
            => /\ Cardinality(IssuedRefreshes) = 1
               /\ \A task \in IssuedRefreshes :
                      task.options = SnapshotOptions(LOG_LIMIT, TRUE)]_vars

\* A refresh of the timer and a refresh of the manual refresh key are in flight
\* together.
C21_Witness ==
    /\ last_event.kind = "Key"
    /\ last_event.key = KeyEvent("Char", "r", FALSE, TRUE)
    /\ Len(tasks) = 2
    /\ tasks[1].kind = "snapshot" /\ ~tasks[1].options.include_revisions
    /\ tasks[2].kind = "snapshot" /\ tasks[2].options.include_revisions

\* C22: a tick of the timer issues a refresh only when the throttle interval
\* has elapsed since the most recent refresh was issued, and then issues one;
\* any other tick issues nothing and changes no field of the session (the
\* clock aside).  The interval is counted from the refresh of any origin: every
\* step that issues a refresh restarts it.
C22_TickThrottled ==
    /\ [][last_event'.kind = "Tick"
            => LET elapsed == Min(last_refresh + last_event'.passed, REFRESH_THROTTLE_SECS)
               IN  IF elapsed >= REFRESH_THROTTLE_SECS
                   THEN Cardinality(IssuedRefreshes) = 1 /\ Len(tasks') = Len(tasks) + 1
                   ELSE /\ tasks' = tasks
                        /\ Fields(Self') = Fields([Self EXCEPT !.last_refresh = elapsed])]_vars
    /\ [][IssuedRefreshes # {} => last_refresh' = 0]_vars

\* After an interactive commit and the refresh that followed it, a tick finds
\* the interval one second short and issues nothing.
C22_Witness ==
    /\ last_event.kind = "Tick" /\ last_event.passed = 1
    /\ last_refresh = REFRESH_THROTTLE_SECS - 1
    /\ tasks = <<>>
    /\ log_lines = <<"OK: hg commit -i", "Snapshot refreshed">>

\* The revision numbers of `revisions` are distinct.
DistinctNumbers(revisions) ==
    \A i, j \in DOMAIN revisions : revisions[i].rev = revisions[j].rev => i = j

\* The position of the first row of `graph_rows` that names the revision n.
FirstRow(graph_rows, n) ==
    CHOOSE i \in DOMAIN graph_rows :
        /\ graph_rows[i].rev = n
        /\ \A j \in DOMAIN graph_rows : graph_rows[j].rev = n => i <= j

\* `merged` is the merge of `revisions` and `graph_rows` as the claim describes
\* it: the matched revisions first, in the order of their first row and with
\* its prefix, then the others as they were.
MergedAsDescribed(revisions, graph_rows, merged) ==
    LET named == {graph_rows[i].rev : i \in DOMAIN graph_rows}
        IsMatched(revision) == revision.rev \in named
        matched == Cardinality({i \in DOMAIN revisions : IsMatched(revisions[i])})
    IN  /\ Len(merged) = Len(revisions)
        /\ \A i \in 1..matched :
              /\ \E k \in DOMAIN revisions :
                    /\ revisions[k].rev = merged[i].rev
                    /\ revisions[k].node = merged[i].node
              /\ merged[i].rev \in named
              /\ merged[i].graph_prefix
                    = Some(graph_rows[FirstRow(graph_rows, merged[i].rev)].graph_prefix)
              /\ \A j \in 1..matched :
                    i < j => FirstRow(graph_rows, merged[i].rev)
                               < FirstRow(graph_rows, merged[j].rev)
        /\ SubSeq(merged, matched + 1, Len(merged))
              = SelectSeq(revisions, LAMBDA revision : ~IsMatched(revision))

\* C23: for a log of distinct revision numbers and a graph of at least one
\* row, the merge returns the revisions a row names, in the order of the
\* first row naming each and with that row's prefix, then the other
\* revisions in their original order with their prefix untouched; a row
\* naming no revision of the log adds nothing.  [7,8,9] with the rows (9,@),
\* (8,o) gives [9,8,7] with the prefixes @, o and none.
C23_GraphOrderWins ==
    /\ call.fn = "merge_log_graph" /\ IsSome(call.result)
       /\ DistinctNumbers(call.revisions) /\ call.graph_rows # <<>>
         => MergedAsDescribed(call.revisions, call.graph_rows, Unwrap(call.result))
    /\ merge_log_graph(<<Revision(7, "a", None), Revision(8, "b", None),
                          Revision(9, "c", None)>>,
                        <<ParsedGraphRow(9, "@"), ParsedGraphRow(8, "o")>>)
         = <<Revision(9, "c", Some("@")), Revision(8, "b", Some("o")),
             Revision(7, "a", None)>>

\* The log 7, 8, 9 was merged with the rows (9,@), (9,o), (8,o): revision 9
\* comes first with the prefix of its first row, 7 last without a prefix.
C23_Witness ==
    /\ call.fn = "merge_log_graph" /\ IsSome(call.result)
    /\ original_order(call.revisions) = <<7, 8, 9>>
    /\ call.graph_rows
         = <<ParsedGraphRow(9, "@"), ParsedGraphRow(9, "o"), ParsedGraphRow(8, "o")>>
    /\ original_order(Unwrap(call.result)) = <<9, 8, 7>>
    /\ Unwrap(call.result)[1].graph_prefix = Some("@")
    /\ Unwrap(call.result)[3].graph_prefix = None

\* The revisions without their prefixes.
WithoutPrefix(revisions) ==
    [i \in DOMAIN revisions |-> [rev |-> revisions[i].rev, node |-> revisions[i].node]]

\* a and b hold the same entries the same number of times.
Permutation(a, b) ==
    /\ Len(a) = Len(b)
    /\ \A e \in Range(a) \cup Range(b) :
          Cardinality({i \in DOMAIN a : a[i] = e}) = Cardinality({i \in DOMAIN b : b[i] = e})

\* The merge of the log and the graph of `call` lost and duplicated nothing,
\* and returned the log itself when the graph has no row.
NothingLost ==
    /\ Permutation(WithoutPrefix(Unwrap(call.result)), WithoutPrefix(call.revisions))
    /\ call.graph_rows = <<>> => Unwrap(call.result) = call.revisions

\* C24 as stated: for every log and every graph, the merged list is a
\* permutation of the log (prefixes aside), and the log itself when the graph
\* has no row.
C24_MergeIsPermutation ==
    call.fn = "merge_log_graph" /\ IsSome(call.result) => NothingLost

\* C24, amended: the same for every log whose revision numbers are distinct;
\* the log is returned unchanged for a graph of no row whatever its numbers.
C24_MergeOfDistinctIsPermutation ==
    /\ call.fn = "merge_log_graph" /\ IsSome(call.result)
       /\ DistinctNumbers(call.revisions)
         => NothingLost
    /\ call.fn = "merge_log_graph" /\ IsSome(call.result) /\ call.graph_rows = <<>>
         => Unwrap(call.result) = call.revisions

\* A log of three revisions was merged with a graph that names one of them
\* twice and the others not at all: the three are returned.
C24_Witness ==
    /\ call.fn = "merge_log_graph" /\ IsSome(call.result)
    /\ original_order(call.revisions) = <<9, 8, 7>>
    /\ call.graph_rows = <<ParsedGraphRow(8, "o"), ParsedGraphRow(8, "@")>>
    /\ original_order(Unwrap(call.result)) = <<8, 9, 7>>

\* The number of times the refresh r ran the command `query`.
Issues(r, query) == Cardinality({i \in DOMAIN r.issued : r.issued[i] = query})

\* The three features with a structured and a legacy query, in the order in
\* which refresh_snapshot settles them.
Features == <<"status", "revisions", "bookmarks">>

Structured(feature) ==
    CASE feature = "status" -> "status -Tjson"
      [] feature = "revisions" -> "log -Tjson"
      [] feature = "bookmarks" -> "bookmarks -Tjson"

LegacyQuery(feature) ==
    CASE feature = "status" -> "status"
      [] feature = "revisions" -> "log -T"
      [] feature = "bookmarks" -> "bookmarks"

Flag(caps, feature) ==
    CASE feature = "status" -> caps.supports_json_status
      [] feature = "revisions" -> caps.supports_json_log
      [] feature = "bookmarks" -> caps.supports_json_bookmarks

\* The query the list of `feature` was parsed from in the snapshot r returned.
ParsedFrom(r, feature) ==
    CASE feature = "status" -> Unwrap(r.result).files
      [] feature = "revisions" -> Unwrap(r.result).revisions[1].node
      [] feature = "bookmarks" -> Unwrap(r.result).bookmarks

\* The refresh r asks for `feature`: hg root succeeded, and the revisions are
\* asked for only with include_revisions.
Asks(r, feature) ==
    /\ feature = "revisions" => Unwrap(r.options).include_revisions
    /\ Unwrap(r.result).failed # "root"

\* The refresh r got as far as settling `feature`: it asks for it and no
\* feature settled before it aborted the refresh.
Reaches(r, feature) ==
    /\ Asks(r, feature)
    /\ \A k \in 1..Len(Features) :
          (\E m \in 1..Len(Features) : m > k /\ Features[m] = feature)
             => Unwrap(r.result).failed # Features[k]

\* The legacy query of `feature` fails under the answers of r: it cannot be
\* spawned, exits non-zero or (the log template) does not parse.
LegacyFails(r, feature) ==
    LET answer == Unwrap(r.answers)[LegacyQuery(feature)]
    IN  ~success(answer) \/ (feature = "revisions" /\ answer = "unparsable")

\* The policy of the claim for `feature` in the finished refresh r: with the
\* flag set and a structured query that exits non-zero or does not parse, the
\* legacy query is run exactly once, its parsed output is the feature's list
\* unless it fails too, and the refresh fails at the feature exactly when it
\* does; with the flag not set the structured query is not run and the legacy
\* query is run once; with the flag set and a structured query that succeeds
\* and parses, the legacy query is not run and the list is parsed from the
\* structured output.
FallbackPolicy(r, feature) ==
    LET structured == Unwrap(r.answers)[Structured(feature)]
        failed == Unwrap(r.result).failed
    IN  /\ Flag(Unwrap(r.caps), feature) /\ structured \in {"nonzero", "unparsable"}
              => /\ Issues(r, Structured(feature)) = 1
                 /\ Issues(r, LegacyQuery(feature)) = 1
                 /\ failed = feature <=> LegacyFails(r, feature)
                 /\ failed = "none" => ParsedFrom(r, feature) = LegacyQuery(feature)
        /\ ~Flag(Unwrap(r.caps), feature)
              => /\ Issues(r, Structured(feature)) = 0
                 /\ Issues(r, LegacyQuery(feature)) = 1
                 /\ failed = feature <=> LegacyFails(r, feature)
                 /\ failed = "none" => ParsedFrom(r, feature) = LegacyQuery(feature)
        /\ Flag(Unwrap(r.caps), feature) /\ structured = "ok"
              => /\ Issues(r, Structured(feature)) = 1
                 /\ Issues(r, LegacyQuery(feature)) = 0
                 /\ failed # feature
                 /\ failed = "none" => ParsedFrom(r, feature) = Structured(feature)

\* C25 as stated: the policy holds for status, revisions and bookmarks
\* independently, in every refresh that asks for the feature.
C25_FallbackIndependently ==
    \A i \in 1..MaxRefreshes : \A k \in 1..Len(Features) :
        hg.refreshes[i].pc = "done" /\ Asks(hg.refreshes[i], Features[k])
            => FallbackPolicy(hg.refreshes[i], Features[k])

\* C25, amended: the policy holds for each of status, revisions and bookmarks
\* in every refresh that gets as far as settling the feature, that is, that
\* was not aborted by the failure of a feature settled before it.
C25_StructuredFirstLegacyFallback ==
    \A i \in 1..MaxRefreshes : \A k \in 1..Len(Features) :
        hg.refreshes[i].pc = "done" /\ Reaches(hg.refreshes[i], Features[k])
            => FallbackPolicy(hg.refreshes[i], Features[k])

\* A refresh returned a snapshot whose files were parsed from the legacy
\* status after a structured status that exited non-zero, whose revisions
\* were parsed from the legacy log after a structured log that did not parse,
\* and whose bookmarks were parsed from the structured output.
C25_Witness ==
    LET r == hg.refreshes[1]
    IN  /\ r.pc = "done"
        /\ Unwrap(r.caps) = Json
        /\ Unwrap(r.answers)["status -Tjson"] = "nonzero"
        /\ Unwrap(r.answers)["log -Tjson"] = "unparsable"
        /\ Unwrap(r.result).failed = "none"
        /\ Unwrap(r.result).files = "status"
        /\ Unwrap(r.result).bookmarks = "bookmarks -Tjson"
        /\ original_order(Unwrap(r.result).revisions) = <<8, 7>>
        /\ Unwrap(r.result).revisions[1].node = "log -T"
        /\ Issues(r, "status") = 1 /\ Issues(r, "log -T") = 1 /\ Issues(r, "bookmarks") = 0

\* C26: however the refreshes that share the client interleave, the
\* capability cache is written at most once, and a detection that starts
\* when the cache holds a value returns that value without running a probe.
C26_CacheWrittenOnce ==
    /\ [](Len(hg.stored) <= 1)
    /\ [][\A i \in 1..MaxRefreshes :
             (/\ hg.refreshes[i].pc = "idle" /\ hg'.refreshes[i].pc # "idle"
              /\ IsSome(hg.capabilities_cache))
               => /\ hg'.refreshes[i].pc = "detected"
                  /\ hg'.refreshes[i].caps = hg.capabilities_cache
                  /\ ~hg'.refreshes[i].probed
                  /\ hg'.capabilities_cache = hg.capabilities_cache]_vars

\* The placeholders {name} that occur in raw: the names that stand between an
\* opening and a closing brace.
Placeholders(raw) ==
    {slice(raw, i, j) : i \in 1..Len(raw), j \in 1..Len(raw)} \cap
    {name \in SeqsUpTo({"file", "rev"}, MaxRawLen) :
        /\ is_template_var_name(name)
        /\ \E i \in 1..Len(raw) :
              /\ i + Len(name) + 1 <= Len(raw)
              /\ SubSeq(raw, i, i + Len(name) + 1) = <<"{">> \o name \o <<"}">>}

\* The placeholders that occur in the strings of the command of `call`.
PlaceholdersOfCall == UNION {Placeholders(call.raws[i]) : i \in DOMAIN call.raws}

\* names lists the set `of`, each name once, in ascending order.
SortedWithoutDuplicates(names, of) ==
    /\ Range(names) = of
    /\ \A i, j \in DOMAIN names : i < j => name_less(names[i], names[j])

\* C27: a custom command is turned into an invocation only if every placeholder
\* {name} that occurs in its program, arguments or environment values is bound
\* in the selection context; otherwise it is rejected with the unresolved names,
\* sorted and each once; and no invocation produced holds an unsubstituted
\* placeholder of the vocabulary.
C27_PlaceholdersResolved ==
    call.fn = "prepare_custom_run_action" /\ IsSome(call.result) =>
        LET result == Unwrap(call.result)
            unbound == PlaceholdersOfCall \ DOMAIN call.vars
        IN  /\ result.ok => unbound = {}
            /\ unbound # {} =>
                  ~result.ok /\ SortedWithoutDuplicates(result.unresolved, unbound)
            /\ result.ok =>
                  \A i \in DOMAIN result.invocation :
                      Placeholders(result.invocation[i]) \cap
                        {<<name>> : name \in SUPPORTED_TEMPLATE_VARS} = {}

\* The reference rules of the tokenizer. After the first k characters of raw
\* the reader is outside quotes ("plain"), inside single or double quotes, or
\* right after a backslash that escapes the next character.
RECURSIVE ReaderAfter(_, _)
ReaderAfter(raw, k) ==
    IF k = 0 THEN "plain"
    ELSE LET before == ReaderAfter(raw, k - 1)
             ch == raw[k]
         IN  CASE before = "escape in plain" -> "plain"
               [] before = "escape in double" -> "double"
               [] before = "single" -> IF ch = "'" THEN "plain" ELSE "single"
               [] before = "double" ->
                    IF ch = "\"" THEN "plain"
                    ELSE IF ch = "\\" THEN "escape in double" ELSE "double"
               [] OTHER ->
                    IF ch = "'" THEN "single"
                    ELSE IF ch = "\"" THEN "double"
                    ELSE IF ch = "\\" THEN "escape in plain" ELSE "plain"

\* The character at position k stands for itself: it is escaped, or inside
\* quotes and not the closing quote or an escaping backslash, or outside quotes
\* and neither a quote, a backslash nor whitespace.
Literal(raw, k) ==
    LET before == ReaderAfter(raw, k - 1) IN
    \/ before \in {"escape in plain", "escape in double"}
    \/ before = "single" /\ raw[k] # "'"
    \/ before = "double" /\ raw[k] \notin {"\"", "\\"}
    \/ before = "plain" /\ raw[k] \notin {"'", "\"", "\\", " "}

\* The character at position k is unquoted whitespace.
Separator(raw, k) == ReaderAfter(raw, k - 1) = "plain" /\ raw[k] = " "

\* The tokens of raw: the maximal runs from..to of characters that are not
\* separators, in order.
TokenRuns(raw) ==
    {run \in (1..Len(raw)) \X (1..Len(raw)) :
        /\ run[1] <= run[2]
        /\ \A k \in run[1]..run[2] : ~Separator(raw, k)
        /\ run[1] = 1 \/ Separator(raw, run[1] - 1)
        /\ run[2] = Len(raw) \/ Separator(raw, run[2] + 1)}

\* The text of a token: its literal characters, quoted and unquoted pieces
\* joined.
TokenText(raw, run) ==
    LET positions == {k \in run[1]..run[2] : Literal(raw, k)}
        RECURSIVE text(_)
        text(from) ==
            IF from > run[2] THEN <<>>
            ELSE (IF from \in positions THEN <<raw[from]>> ELSE <<>>) \o text(from + 1)
    IN  text(run[1])

\* The texts of the tokens of raw whose first character is at or after `from`.
RECURSIVE TokensFrom(_, _)
TokensFrom(raw, from) ==
    LET runs == {run \in TokenRuns(raw) : run[1] >= from} IN
    IF runs = {} THEN <<>>
    ELSE LET first == CHOOSE run \in runs : \A other \in runs : run[1] <= other[1]
         IN  <<TokenText(raw, first)>> \o TokensFrom(raw, first[2] + 1)

\* What the reference rules give for raw.
Reference(raw) ==
    IF \/ ReaderAfter(raw, Len(raw)) # "plain"
       \/ TokensFrom(raw, 1) = <<>>
    THEN [ok |-> FALSE]
    ELSE [ok |-> TRUE, program |-> Head(TokensFrom(raw, 1)),
          args |-> Tail(TokensFrom(raw, 1))]

\* C28: on every command string the tokenizer agrees with the reference rules:
\* it fails exactly when they do (a quote left open, a trailing escape, no
\* token), and otherwise returns their first token as the program and the
\* others as the arguments, in order.
C28_TokenizerAgreesWithReference ==
    call.fn = "parse_command_parts" /\ IsSome(call.result) =>
        LET result == Unwrap(call.result)
            reference == Reference(call.raw)
        IN  /\ result.ok = reference.ok
            /\ result.ok =>
                  result.program = reference.program /\ result.args = reference.args

\* C29: canonicalization of key bindings is idempotent: when a string
\* canonicalizes, its canonical form canonicalizes too, to itself.
C29_CanonicalizeIdempotent ==
    call.fn = "canonicalize_key_binding" /\ IsSome(call.result)
    /\ IsSome(Unwrap(call.result))
        => canonicalize_key_binding(Unwrap(Unwrap(call.result))) = Unwrap(call.result)

\* " shift+cmd+ BackTab" was canonicalized, to a string other than itself.
C29_Witness ==
    /\ call.fn = "canonicalize_key_binding" /\ IsSome(call.result)
    /\ call.raw = <<"shift", "+", "cmd", "+", "BackTab">>
    /\ Unwrap(call.result) = Some(<<"cmd", "+", "shift", "+", "tab">>)

\* The override of `action` in the overrides of `call`, if one names it.
OverrideOf(action) ==
    {name \in DOMAIN call.overrides : from_str(name) = Some(action)}

\* The keys the overrides of `call` ask for `action`: the canonical form of its
\* override, or its built-in keys.
Assigned(action) ==
    IF OverrideOf(action) = {} THEN Range(default_keys(action))
    ELSE {to_string(Unwrap(canonicalize_key_binding(call.overrides[name]))) :
             name \in {n \in OverrideOf(action) :
                          IsSome(canonicalize_key_binding(call.overrides[n]))}}

UnknownActions == {name \in DOMAIN call.overrides : ~IsSome(from_str(name))}

InvalidKeys ==
    {name \in DOMAIN call.overrides :
        IsSome(from_str(name)) /\ ~IsSome(canonicalize_key_binding(call.overrides[name]))}

\* The keys the overrides of `call` ask for two actions or more.
DuplicateKeys ==
    LET assigned == <<>> \o [i \in DOMAIN ActionId_all |-> Assigned(ActionId_all[i])]
    IN  {key \in UNION Range(assigned) :
            Cardinality({i \in DOMAIN assigned : key \in assigned[i]}) > 1}

\* The overrides of `call` validate.
Validates == UnknownActions = {} /\ InvalidKeys = {} /\ DuplicateKeys = {}

\* keymap binds the keys `keys(action)` to every action and nothing else, the
\* first of them being the primary key.
Binds(keymap, keys(_), primary(_)) ==
    /\ DOMAIN keymap.primary_for_action = Range(ActionId_all)
    /\ \A action \in Range(ActionId_all) :
          /\ keymap.primary_for_action[action] = primary(action)
          /\ \A key \in keys(action) : keymap.event_to_action[key] = action
    /\ DOMAIN keymap.event_to_action = UNION {keys(action) : action \in Range(ActionId_all)}

\* C30: whatever the key overrides, the keymap of the session has a primary key
\* for every action. If the overrides validate it binds the keys they ask for,
\* no key to two actions, and nothing is logged; if not it is the built-in map
\* and every issue (unknown action, invalid key, duplicate key) is logged.
C30_KeymapAlwaysDefined ==
    call.fn = "new_with_startup_issues" /\ IsSome(call.result) =>
        LET result == Unwrap(call.result)
            primary(action) ==
                IF OverrideOf(action) = {} THEN default_keys(action)[1]
                ELSE CHOOSE key \in Assigned(action) : TRUE
            default_primary(action) == default_keys(action)[1]
            default(action) == Range(default_keys(action))
        IN  /\ result.keymap.ok
            /\ DOMAIN result.keymap.primary_for_action = Range(ActionId_all)
            /\ Validates =>
                  /\ Binds(result.keymap, Assigned, primary)
                  /\ result.log_lines = <<>>
            /\ ~Validates =>
                  /\ Binds(result.keymap, default, default_primary)
                  /\ \A name \in UnknownActions :
                        "Keybinding warning: unknown keybinding action '" \o name \o "'"
                            \in Range(result.log_lines)
                  /\ \A name \in InvalidKeys :
                        "Keybinding warning: invalid keybinding for '" \o name \o "'"
                            \in Range(result.log_lines)
                  /\ \A key \in DuplicateKeys :
                        "Keybinding warning: duplicate keybinding '" \o key \o "'"
                            \in Range(result.log_lines)

\* Overrides that validate were applied: quit is on x and q is bound to nothing.
C30_Witness ==
    /\ call.fn = "new_with_startup_issues" /\ IsSome(call.result)
    /\ DOMAIN call.overrides = {"quit", "help"}
    /\ Unwrap(call.result).keymap.primary_for_action["Quit"] = "x"
    /\ Unwrap(call.result).keymap.primary_for_action["Help"] = "q"
    /\ Unwrap(call.result).keymap.event_to_action["q"] = "Help"

\* The fields of the session a failed refresh may change.

\* Every other field of the session.
FailedRefreshKeeps ==
    <<focus, snapshot, detail_text, details_scroll, input, confirmation,
      command_palette, commit_file_selection, interactive_commit_request, should_quit,
      files_idx, rev_idx, bookmarks_idx, shelves_idx, conflicts_idx, log_idx,
      files_offset, rev_offset, bookmarks_offset, shelves_offset, conflicts_offset,
      last_refresh, detail_request_id, pending_rebase_source,
      commit_graph_warning_emitted, rebase_unavailable_notice_emitted, ui_rects,
      last_mouse_click, custom_commands>>

\* C31: when a refresh fails, the snapshot, the indices and offsets of the
\* panels, the commit-file selection, the pending rebase source and the detail
\* text stay as they are, and so does every field other than the status line,
\* the log and the remembered rebase hint; no detail fetch is issued.
C31_FailedRefreshChangesNothing ==
    [][last_event'.kind = "SnapshotLoaded" /\ ~last_event'.result.ok
            => /\ UNCHANGED FailedRefreshKeeps
               /\ status_line' = "Snapshot refresh failed."
               /\ last_rebase_hint' = None
               /\ Len(tasks') = Len(tasks) - 1]_vars

\* A refresh failed in a session that shows the second file of a loaded
\* snapshot and its diff.
C31_Witness ==
    /\ last_event.kind = "SnapshotLoaded" /\ ~last_event.result.ok
    /\ snapshot = Plain /\ files_idx = 1
    /\ detail_text.text = "diff"
    /\ status_line = "Snapshot refresh failed."

\* C32: a queued interactive commit is the next thing the loop handles, and
\* handling it takes the request; a tool that ran (whatever its exit status)
\* is followed by one refresh with the revisions, and a tool that could not
\* be run (the terminal could not be handed over, hg could not be launched,
\* the terminal could not be taken back) is followed by none.
C32_CommitTakenThenRefreshed ==
    [][/\ IsSome(interactive_commit_request) => last_event'.kind = "InteractiveCommit"
       /\ last_event'.kind = "InteractiveCommit"
            => /\ IsSome(interactive_commit_request)
               /\ interactive_commit_request' = None
               /\ IF last_event'.outcome \in {"completed", "exited"}
                  THEN tasks' = Append(tasks, SnapshotTask(FALSE, TRUE))
                  ELSE tasks' = tasks]_vars

\* C32 as stated: every interactive commit, the one that could not be
\* launched included, is followed by a refresh with the revisions.
C32_CommitAlwaysRefreshed ==
    [][last_event'.kind = "InteractiveCommit"
           => tasks' = Append(tasks, SnapshotTask(FALSE, TRUE))]_vars

\* hg exited with an error, and the refresh with the revisions is in flight.
C32_Witness ==
    /\ last_event.kind = "InteractiveCommit" /\ last_event.outcome = "exited"
    /\ interactive_commit_request = None
    /\ tasks # <<>> /\ tasks[Len(tasks)] = SnapshotTask(FALSE, TRUE)


\* The lines of `old` that are still in `new` are the last `keep` of old, at
\* the head of new and in their order; lines were dropped only from a log
\* that ended full.
Survivors(old, new, keep) ==
    /\ keep <= Len(new)
    /\ SubSeq(new, 1, keep) = SubSeq(old, Len(old) - keep + 1, Len(old))
    /\ keep < Len(old) => Len(new) = MaxLogLines

\* C33: the log never holds more than the cap; every step leaves the log as
\* it was or appends to it, dropping lines only from the old end and only to
\* make room (what remains of the old log keeps its order); and the line a
\* failed refresh appends is the last line of the log, full or not.
C33_LogCappedOldestDropped ==
    [][/\ Len(log_lines') <= MaxLogLines
       /\ \E keep \in 0..Len(log_lines) : Survivors(log_lines, log_lines', keep)
       /\ last_event'.kind = "SnapshotLoaded" /\ ~last_event'.result.ok
            => log_lines'[Len(log_lines')] = "Refresh failed"]_vars

\* The log was full when a refresh failed: the line of the failure is the
\* newest, the line before it moved up, and the oldest is gone.
C33_Witness ==
    /\ last_event.kind = "SnapshotLoaded" /\ ~last_event.result.ok
    /\ log_lines = <<"Snapshot refreshed", "Refresh failed">>

\* The session s once the refresh at position i of its units in flight has
\* returned `result` and the event was handled.
applied(s, i, result) ==
    SnapshotLoaded([s EXCEPT !.tasks = RemoveAt(@, i)], s.tasks[i].preserve_details,
                   s.tasks[i].include_revisions, result)

\* The overlaps claim C34 names: a refresh without revisions in flight at
\* position i and a refresh with revisions, issued after it, at position j.
Overlaps ==
    {pair \in (1..Len(tasks)) \X (1..Len(tasks)) :
        /\ pair[1] < pair[2]
        /\ tasks[pair[1]].kind = "snapshot" /\ ~tasks[pair[1]].include_revisions
        /\ tasks[pair[2]].kind = "snapshot" /\ tasks[pair[2]].include_revisions}

\* The snapshots a refresh with revisions can return.
FullSnapshots == {Plain, Moved, Head3}

\* The revision list of the session after the newer refresh of the overlap
\* returned `newer` and was applied, and the older one was applied after it.
AfterOverlap(pair, newer) ==
    applied(applied(Self, pair[2], Loaded(newer)), pair[1], Loaded(Light)).snapshot.revisions

\* C34, amended: in no overlap of a refresh without revisions and a newer
\* refresh with revisions does applying the older result after the newer one
\* replace the list the newer one installed: the session ends with the newer
\* refresh's revision list.
C34_OverlapKeepsNewerRevisions ==
    \A pair \in Overlaps, newer \in FullSnapshots : AfterOverlap(pair, newer) = newer.revisions

\* C34 as stated: where a refresh without revisions and a newer refresh with
\* revisions overlap, some result of the newer one is replaced by another
\* list when the older result is applied after it.
C34_OverlapLosesNewerRevisions ==
    Overlaps # {}
        => \E pair \in Overlaps, newer \in FullSnapshots :
              AfterOverlap(pair, newer) # newer.revisions

\* The timer's refresh and a manual refresh pressed after it are in flight, the
\* session holds the two revisions of Plain, and once the manual refresh has
\* installed the new head and the timer's result was applied after it, the
\* session holds the list with the new head.
C34_Witness ==
    /\ Overlaps = {<<1, 2>>}
    /\ snapshot.revisions = Plain.revisions
    /\ AfterOverlap(<<1, 2>>, Moved) = Moved.revisions
    /\ Moved.revisions # Plain.revisions


\* u64::MAX at the width of the model.
MaxId == Pow2(IdBits) - 1

\* A step that issued a detail fetch.
IssuesDetail == InFlight(tasks', "detail") > InFlight(tasks, "detail")

\* C35, amended: every detail fetch issued carries the id before it plus one,
\* which is greater than every id issued before as long as the counter is
\* below its largest value; the fetch issued at the largest value carries 0.
C35_IdsIncreaseUntilWrap ==
    [][IssuesDetail
         => /\ tasks'[Len(tasks')] = DetailTask(detail_request_id')
            /\ IF detail_request_id < MaxId
               THEN detail_request_id' = detail_request_id + 1
               ELSE detail_request_id' = 0]_vars

\* C35 as stated: every detail fetch issued carries an id greater than the
\* latest issued before it, at the largest value of the counter too.
C35_IdsAlwaysIncrease ==
    [][IssuesDetail
         => /\ tasks'[Len(tasks')] = DetailTask(detail_request_id')
            /\ detail_request_id' > detail_request_id]_vars

\* The fetch issued at the largest value of the counter is in flight with
\* id 0, an id below every id issued before it.
C35_Witness ==
    /\ last_event.kind = "Key"
    /\ detail_request_id = 0
    /\ tasks # <<>> /\ tasks[Len(tasks)] = DetailTask(0)


\* A snapshot was loaded and the session shows the same file or revision as
\* before, and was asked to keep the pane.
KeepsPane ==
    /\ last_event'.preserve_details
    /\ detail_target(Self)' = detail_target(Self)

\* C36, amended: a successful snapshot applied with preserve_details and an
\* unchanged detail target leaves the detail text, the scroll and the latest
\* request id as they were and issues no fetch; otherwise the scroll is 0 and
\* the request id advances by one, and a fetch with that id is issued exactly
\* when there is a file or revision to show.
C36_PaneKeptForSameTarget ==
    [][last_event'.kind = "SnapshotLoaded" /\ last_event'.result.ok
         => IF KeepsPane
            THEN /\ detail_text' = detail_text
                 /\ details_scroll' = details_scroll
                 /\ detail_request_id' = detail_request_id
                 /\ ~IssuesDetail
            ELSE /\ details_scroll' = 0
                 /\ detail_request_id' = detail_request_id + 1
                 /\ IssuesDetail <=> detail_target(Self)' # <<"None">>
                 /\ IssuesDetail => tasks'[Len(tasks')] = DetailTask(detail_request_id')]_vars

\* C36 as stated: a successful snapshot applied without preserve_details, or
\* with a changed detail target, issues a detail fetch and resets the scroll.
C36_FetchWheneverNotKept ==
    [][last_event'.kind = "SnapshotLoaded" /\ last_event'.result.ok
         => IF KeepsPane
            THEN /\ detail_text' = detail_text
                 /\ details_scroll' = details_scroll
                 /\ detail_request_id' = detail_request_id
                 /\ ~IssuesDetail
            ELSE /\ details_scroll' = 0
                 /\ IssuesDetail]_vars

\* The timer's refresh was applied to a pane that shows a diff scrolled down:
\* the diff and the scroll are still there and nothing is being fetched.
C36_Witness ==
    /\ last_event.kind = "SnapshotLoaded" /\ last_event.result.ok
    /\ last_event.preserve_details
    /\ detail_text.text = "diff" /\ details_scroll > 0
    /\ tasks = <<>>


\* What a key of the keymap could change and a modal keeps from it.
Shielded ==
    <<should_quit, focus, files_idx, rev_idx, bookmarks_idx, shelves_idx, conflicts_idx,
      log_idx, commit_file_selection, pending_rebase_source>>

\* C37: a key pressed while a modal is open changes neither the quit flag,
\* nor the focus, nor a panel's index, nor the commit-file selection, nor the
\* pending rebase source; and Esc closes the modal, starts nothing and leaves
\* the pending rebase source pending.
C37_ModalConsumesKeys ==
    [][last_event'.kind = "Key" /\ AnyModalOpen
         => /\ UNCHANGED Shielded
            /\ last_event'.key.code = "Esc"
                  => /\ ~AnyModalOpen'
                     /\ tasks' = tasks
                     /\ status_line' # "Rebase selection cancelled."]_vars

\* Esc closed the push confirmation of a session with a rebase source
\* pending: the source is still pending.
C37_Witness ==
    /\ last_event.kind = "Key" /\ last_event.key.code = "Esc"
    /\ status_line = "Action cancelled."
    /\ IsSome(pending_rebase_source)
    /\ ~AnyModalOpen

\* Two refreshes in flight, the one at pair[1] issued before the one at pair[2].
SnapshotPairs ==
    {pair \in (1..Len(tasks)) \X (1..Len(tasks)) :
        /\ pair[1] < pair[2]
        /\ tasks[pair[1]].kind = "snapshot"
        /\ tasks[pair[2]].kind = "snapshot"}

\* The lists of a snapshot other than the revisions.
Lists(snap) == <<snap.files, snap.bookmarks, snap.shelves, snap.conflicts>>

\* The session after the later-issued refresh of the pair returned `later`
\* and was applied, and the earlier-issued one returned `earlier` and was
\* applied after it.
Reversed(pair, earlier, later) ==
    applied(applied(Self, pair[2], Loaded(later)), pair[1], Loaded(earlier))

\* C38: when the results of two refreshes in flight are applied in the reverse
\* of the order of issue, the session ends with the file, bookmark, shelf and
\* conflict lists of the later-issued refresh.
C38_LaterIssuedRefreshWins ==
    \A pair \in SnapshotPairs, earlier \in {Plain, Short}, later \in {Plain, Short} :
        Lists(Reversed(pair, earlier, later).snapshot) = Lists(later)

\* The guard of a command of the rebase family, on the snapshot of session s.
RebaseGuard(s, action) ==
    CASE action.type = "RebaseContinue" ->
            s.snapshot.rebase.in_progress /\ s.snapshot.rebase.unresolved_conflicts = 0
      [] action.type = "RebaseAbort" -> s.snapshot.rebase.in_progress
      [] action.type = "RebaseSourceDest" ->
            source_still_visible(s, action.rev) /\ source_still_visible(s, action.dest)
      [] OTHER -> TRUE

\* C39: a command of the rebase family is started only in a session whose
\* snapshot satisfies the guard that let its confirmation open.
C39_GuardHoldsWhenSpawned ==
    [][last_event'.kind = "Key"
         => \A i \in (Len(tasks) + 1)..Len(tasks') :
               tasks'[i].kind = "action" => RebaseGuard(Self, tasks'[i].action)]_vars

\* What the detail pane shows when a pull or a push has exited non-zero.
FailureOutputs ==
    {Detail("FAILED: " \o command_preview(HgAction(type))) : type \in {"Pull", "Push"}}

\* C40: the output of a command that exited non-zero, once in the detail
\* pane, is still there after every event that is not the user's: a detail
\* fetch that returns, a snapshot that is applied, a tick of the timer.
C40_FailureOutputStays ==
    [][(detail_text \in FailureOutputs
           /\ last_event'.kind \in {"DetailLoaded", "SnapshotLoaded", "Tick"})
         => detail_text' = detail_text]_vars

====
